---- MODULE Spec2Model ----
(***************************************************************************)
(* grovectl: the SSH connection manager (core/ssh.py) with its connection  *)
(* pool, and the retry decorator (utils/retry.py) wrapped around           *)
(* SSHManager.run.                                                         *)
(*                                                                         *)
(* Callers are threads sharing one SSHManager.  A step is one atomic piece *)
(* of a method: the pool check of get_client as it takes the lock, the     *)
(* connect of _create_client with the insert that follows it under the     *)
(* lock, exec_command, and the eviction after a protocol error.  What the  *)
(* retry wrapper does with an error touches only the thread's own state    *)
(* and is part of the step that raises it.  The environment advances the   *)
(* clock and drops transports.                                             *)
(***************************************************************************)
EXTENDS Integers, Sequences, FiniteSets, TLC

VARIABLES
    pool,         \* SSHManager._pool: the set of pooled entries (name, client, created_at)
    lock,         \* SSHManager._lock: the thread holding it, or NoThread
    now,          \* time.time()
    nextId,       \* identity of the next paramiko.SSHClient that connects
    transportUp,  \* clients whose get_transport() is not None and is_active()
    closed,       \* clients on which close() was called
    call,         \* per thread: the call in progress (or the last one finished)
    ncalls,       \* number of calls started so far
    menu,         \* the program of each thread: the methods it calls
    broken,       \* clients on which run saw a protocol error and finished its eviction
    rw,           \* a call of a function decorated with retry_with_backoff, on its own
    bt,           \* a call of VMManager.batch_start or batch_stop, on its own
    vo            \* a call of one of the other operations of VMManager, on its own

vars == <<pool, lock, now, nextId, transportUp, closed, call, ncalls, menu, broken, rw, bt,
          vo>>

\* What the methods of SSHManager leave alone.
elsewhere == <<rw, bt, vo>>

(***************************************************************************)
(* Bounds of the model.                                                    *)
(***************************************************************************)
MaxCalls == 2
MaxSessions == 2

Callers == {"t1", "t2"}
\* The programs of the threads: the methods each thread calls.  Either both threads
\* work on the pool, or one thread runs one command while the other works on the pool.
PoolMethods == {"acquire", "close", "close_all"}
Programs ==
    {[t1 |-> PoolMethods, t2 |-> PoolMethods],
     [t1 |-> {"run"}, t2 |-> PoolMethods]}
Hosts == {"A", "B"}
Commands == {"tart list"}

NoThread == "none"
NoClient == 0

(***************************************************************************)
(* Program constants.  One clock unit stands for pool_max_age seconds.     *)
(***************************************************************************)
PoolMaxAge == 1
MaxAttempts == 3

\* The clock is followed until an entry made at its start is one unit past
\* pool_max_age: an entry is seen younger than, as old as, and older than the limit.
MaxTime == PoolMaxAge + 1

DryRunStdout == "[dry-run mode - command not executed]"

(***************************************************************************)
(* exceptions.py: the SSH error classes and their base classes.            *)
(***************************************************************************)
ErrorKinds == {"auth", "conn_timeout", "conn_other", "cmd_timeout", "protocol"}

\* The class of the exception raised for each kind of failure.
ErrClass(kind) ==
    CASE kind = "auth"         -> "SSHAuthenticationError"
      [] kind = "conn_timeout" -> "SSHTimeoutError"
      [] kind = "conn_other"   -> "SSHConnectionError"
      [] kind = "cmd_timeout"  -> "SSHConnectionError"
      [] kind = "protocol"     -> "SSHConnectionError"

\* The direct base class.
BaseClass(cls) ==
    CASE cls = "SSHAuthenticationError" -> "SSHConnectionError"
      [] cls = "SSHTimeoutError"        -> "SSHConnectionError"
      [] cls = "SSHConnectionError"     -> "GrovectlError"
      [] cls = "GrovectlError"          -> "Exception"
      [] cls = "HostNotFoundError"      -> "GrovectlError"
      [] cls = "VMOperationError"       -> "GrovectlError"
      [] cls = "VMNotFoundError"        -> "VMOperationError"
      [] cls = "VMStartError"           -> "VMOperationError"
      [] cls = "VMStopError"            -> "VMOperationError"
      [] cls = "BadAuthenticationType"  -> "AuthenticationException"
      [] cls = "AuthenticationException" -> "SSHException"
      [] cls = "BadHostKeyException"    -> "SSHException"
      [] cls = "SSHException"           -> "Exception"
      [] cls = "ConnectionRefusedError" -> "OSError"
      [] cls = "TimeoutError"           -> "OSError"
      [] cls = "OSError"                -> "Exception"
      [] OTHER                          -> "object"

RECURSIVE IsSubclass(_, _)
IsSubclass(cls, base) ==
    IF cls = base THEN TRUE
    ELSE IF cls = "object" THEN FALSE
    ELSE IsSubclass(BaseClass(cls), base)

\* The exceptions= argument of the decorator on SSHManager.run.
RunRetryExceptions == {"SSHConnectionError"}

\* A wrapper that catches nothing (a variant C6 must tell from the real one).
CaughtNone(kind) == FALSE

\* "except exceptions as e" of the wrapper: does it catch an error of this kind.
Caught(kind) == \E base \in RunRetryExceptions : IsSubclass(ErrClass(kind), base)

(***************************************************************************)
(* The pool, a dict keyed by host name.                                    *)
(***************************************************************************)
InPool(h) == \E e \in pool : e.name = h

PoolGet(h) == CHOOSE e \in pool : e.name = h

\* A delete that empties the pool (a variant C38 must tell from the real one).
PoolDelAll(h) == {}

\* A delete that removes nothing (a variant C16 must tell from the real one).
PoolDelNothing(h) == pool

\* del self._pool[host.name]
PoolDel(h) == {e \in pool : e.name # h}

\* An insert that keeps what the key held (a variant C3 must tell from the real one).
PoolPutAppend(h, entry) == pool \cup {entry}

\* self._pool[host.name] = PooledConnection(...): replaces what the key held.
PoolPut(h, entry) == {e \in pool : e.name # h} \cup {entry}

PooledClients == {e.client : e \in pool}

\* A check that finds every transport active (a variant C2 must tell from the real one).
IsActiveAlways(client) == TRUE

\* PooledConnection.is_active
IsActive(client) == client \in transportUp

\* The age test the wrong way round (a variant C1 must tell from the real one).
IsYoungFlipped(entry) == now - entry.created_at > PoolMaxAge

\* age = time.time() - pooled.created_at; age < self.pool_max_age
IsYoung(entry) == now - entry.created_at < PoolMaxAge

\* A lock that excludes nobody (a variant C4 must tell from the real one).
CanLockRacy(t) == TRUE

\* with self._lock (a threading.RLock): free, or already held by this thread.
CanLock(t) == lock \in {NoThread, t}

\* A with block that keeps the lock on leaving (a variant C18 must tell from the
\* real one).
UnlockKept(t) == t

\* Leaving the with self._lock block of get_client, by return or by exception.
Unlock(t) == NoThread

(***************************************************************************)
(* Calls.                                                                  *)
(***************************************************************************)
NoResult == [stdout |-> "", stderr |-> "", exit_code |-> -1, host |-> "none", command |-> "none"]

IdleCall ==
    [op |-> "none", host |-> "none", command |-> "none", force_new |-> FALSE,
     dry_run |-> FALSE, pc |-> "idle", attempt |-> 0, client |-> NoClient,
     err |-> "none", outcome |-> "none", result |-> NoResult,
     connects |-> 0, execs |-> 0, sleeps |-> 0,
     discarded |-> FALSE, reused |-> FALSE, overlap |-> FALSE, prev |-> NoClient]

\* What the remote side may answer to a command that runs to its end.
RemoteAnswers ==
    {[stdout |-> "output", stderr |-> "", exit_code |-> 0],
     [stdout |-> "", stderr |-> "error", exit_code |-> 1]}

\* No decorated call is being followed.
NoRetryCall == [pc |-> "none"]

\* No batch is being followed.
NoBatch == [pc |-> "none"]

\* No operation of VMManager is being followed.
NoOperation == [pc |-> "none"]

Init ==
    /\ rw = NoRetryCall
    /\ bt = NoBatch
    /\ vo = NoOperation
    /\ pool = {}
    /\ lock = NoThread
    /\ now = 0
    /\ nextId = 1
    /\ transportUp = {}
    /\ closed = {}
    /\ call = [t \in Callers |-> IdleCall]
    /\ ncalls = 0
    /\ menu \in Programs
    /\ broken = {}

\* Another thread is inside get_client for host h.
AcquireInFlight(t, h) ==
    \E u \in Callers \ {t} :
        /\ call[u].pc \in {"gc_lock", "gc_create"}
        /\ call[u].host = h

\* The record of thread u when another thread enters get_client for host h: a direct
\* get_client call of u for h that is in progress now overlaps with it.
Overlapped(u, h) ==
    IF call[u].op = "acquire" /\ call[u].pc \in {"gc_lock", "gc_create"} /\ call[u].host = h
    THEN [call[u] EXCEPT !.overlap = TRUE]
    ELSE call[u]

\* The call ends: what stays is what it returned or raised.  The locals of run and
\* of the wrapper (client, attempt) and the counters of the call in progress go
\* with it.
Ended(c, outcome) ==
    [c EXCEPT !.pc = "idle", !.outcome = outcome, !.attempt = 0,
              !.connects = 0, !.execs = 0, !.sleeps = 0, !.prev = NoClient,
              !.client = IF c.op = "run" THEN NoClient ELSE @]

\* The client the thread's previous call returned, when that call was get_client for
\* the same host.
PrevAcquired(t, h) ==
    IF call[t].op = "acquire" /\ call[t].host = h /\ call[t].outcome = "returned"
    THEN call[t].client
    ELSE NoClient

\* A thread calls get_client(host, force_new=f).
StartAcquire(t) ==
    /\ "acquire" \in menu[t]
    /\ call[t].pc = "idle"
    /\ ncalls < MaxCalls
    /\ \E h \in Hosts, f \in BOOLEAN :
        call' = [u \in Callers |->
                    IF u = t
                    THEN [IdleCall EXCEPT !.op = "acquire", !.host = h, !.force_new = f,
                                          !.pc = "gc_lock",
                                          !.overlap = AcquireInFlight(t, h),
                                          !.prev = PrevAcquired(t, h)]
                    ELSE Overlapped(u, h)]
    /\ ncalls' = ncalls + 1
    /\ UNCHANGED <<pool, lock, now, nextId, transportUp, closed, menu, broken>>
    /\ UNCHANGED elsewhere

\* A run that ignores dry_run (a variant C10 must tell from the real one).
IsDryRunIgnored(d) == FALSE

\* if dry_run:
IsDryRun(d) == d

\* SSHResult(stdout="[dry-run mode - command not executed]", ...)
DryRunResult(h, c) ==
    [stdout |-> DryRunStdout, stderr |-> "", exit_code |-> 0, host |-> h, command |-> c]

\* A thread calls run(host, command, dry_run=d): the wrapper makes attempt 1, which
\* returns the dry-run result or goes on to get_client.
StartRun(t) ==
    /\ "run" \in menu[t]
    /\ call[t].op = "none"
    /\ call[t].pc = "idle"
    /\ ncalls < MaxCalls
    /\ \E h \in Hosts, c \in Commands, d \in BOOLEAN :
        LET c0 == [IdleCall EXCEPT !.op = "run", !.host = h, !.command = c,
                                   !.dry_run = d, !.attempt = 1]
        IN  call' = [call EXCEPT ![t] =
                        IF IsDryRun(d)
                        THEN Ended([c0 EXCEPT !.result = DryRunResult(h, c)], "returned")
                        ELSE [c0 EXCEPT !.pc = "gc_lock"]]
    /\ ncalls' = ncalls + 1
    /\ UNCHANGED <<pool, lock, now, nextId, transportUp, closed, menu, broken>>
    /\ UNCHANGED elsewhere

\* get_client returns client: to the thread that called it, or to run, which goes
\* on to exec_command.
Returns(c, client) ==
    IF c.op = "acquire"
    THEN Ended([c EXCEPT !.client = client], "returned")
    ELSE [c EXCEPT !.pc = "exec", !.client = client]

\* A wrapper that allows one attempt more (a variant C9 must tell from the real one).
GivesUpLate(attempt) == attempt > MaxAttempts

\* if attempt >= max_attempts: raise
GivesUp(attempt) == attempt >= MaxAttempts

\* An error of this kind leaves get_client or the body of run.  A direct get_client
\* call raises it to the thread.  Under run it reaches the retry wrapper: not caught,
\* or caught on the last attempt, it is raised as it is; otherwise the wrapper
\* sleeps and calls run again.
Fails(c, kind) ==
    IF c.op = "acquire" \/ ~Caught(kind) \/ GivesUp(c.attempt)
    THEN Ended([c EXCEPT !.err = kind], "raised")
    ELSE [c EXCEPT !.err = kind, !.pc = "gc_lock", !.attempt = @ + 1,
                   !.sleeps = @ + 1, !.client = NoClient]

\* with contextlib.suppress(Exception): client.close(), for each of these clients:
\* the transports that are up afterwards, the close of those in failed having raised.
UpAfterClose(clients, failed) == transportUp \ (clients \ failed)

\* What a direct get_client call did with the pooled entry it found: reused it, or
\* discarded it (the calls that run makes do not keep this).
Noting(c, what) ==
    IF c.op # "acquire" THEN c
    ELSE IF what = "reused" THEN [c EXCEPT !.reused = TRUE]
    ELSE [c EXCEPT !.discarded = TRUE]

\* get_client: takes the lock and checks the pooled connection.  A new attempt of
\* run has begun: the error the wrapper slept on is behind it.
GcCheck(t) ==
    /\ call[t].pc = "gc_lock"
    /\ CanLock(t)
    /\ LET h == call[t].host
           c == [call[t] EXCEPT !.err = "none"]
       IN
       IF ~c.force_new /\ InPool(h)
       THEN LET pooled == PoolGet(h) IN
            IF IsActive(pooled.client) /\ IsYoung(pooled)
            THEN /\ call' = [call EXCEPT ![t] =
                                Returns(Noting(c, "reused"), pooled.client)]
                 /\ lock' = Unlock(t)
                 /\ UNCHANGED <<pool, transportUp, closed>>
            ELSE /\ closed' = closed \cup {pooled.client}
                 /\ \E failed \in SUBSET {pooled.client} :
                        transportUp' = UpAfterClose({pooled.client}, failed)
                 /\ pool' = PoolDel(h)
                 /\ lock' = t
                 /\ call' = [call EXCEPT ![t] =
                                [Noting(c, "discarded") EXCEPT !.pc = "gc_create"]]
       ELSE /\ call' = [call EXCEPT ![t] = [c EXCEPT !.pc = "gc_create"]]
            /\ lock' = t
            /\ UNCHANGED <<pool, transportUp, closed>>
    /\ UNCHANGED <<now, nextId, ncalls, menu, broken>>
    /\ UNCHANGED elsewhere

\* get_client: _create_client connects, and the new client enters the pool.
GcCreateOk(t) ==
    /\ call[t].pc = "gc_create"
    /\ nextId <= MaxSessions
    /\ LET h == call[t].host IN
        pool' = PoolPut(h, [name |-> h, client |-> nextId, created_at |-> now])
    /\ transportUp' = transportUp \cup {nextId}
    /\ nextId' = nextId + 1
    /\ lock' = Unlock(t)
    /\ call' = [call EXCEPT ![t] =
                    Returns([call[t] EXCEPT !.connects = @ + 1], nextId)]
    /\ UNCHANGED <<now, closed, ncalls, menu, broken>>
    /\ UNCHANGED elsewhere

\* What client.connect may raise: paramiko's and the socket's exceptions.
ConnectCauses ==
    {"AuthenticationException", "BadAuthenticationType", "TimeoutError",
     "SSHException", "BadHostKeyException", "OSError", "ConnectionRefusedError"}

\* The except clauses with the generic one first (a variant C17 must tell from the
\* real ones).
ExceptClausesGenericFirst ==
    <<[catches |-> {"SSHException", "OSError"}, closes |-> TRUE, raises |-> "conn_other"],
      [catches |-> {"AuthenticationException"}, closes |-> TRUE, raises |-> "auth"],
      [catches |-> {"TimeoutError"}, closes |-> TRUE, raises |-> "conn_timeout"]>>

\* _create_client: the except clauses after client.connect, in their order; each
\* calls client.close() and raises.
ExceptClauses ==
    <<[catches |-> {"AuthenticationException"}, closes |-> TRUE, raises |-> "auth"],
      [catches |-> {"TimeoutError"}, closes |-> TRUE, raises |-> "conn_timeout"],
      [catches |-> {"SSHException", "OSError"}, closes |-> TRUE, raises |-> "conn_other"]>>

\* The first clause, from the i-th on, that matches the exception; none: the
\* exception leaves _create_client as it is, the client left open.
RECURSIVE Handled(_, _)
Handled(cause, i) ==
    IF i > Len(ExceptClauses)
    THEN [catches |-> {}, closes |-> FALSE, raises |-> "uncaught"]
    ELSE IF \E base \in ExceptClauses[i].catches : IsSubclass(cause, base)
    THEN ExceptClauses[i]
    ELSE Handled(cause, i + 1)

Classify(cause) == Handled(cause, 1)

\* The errors that leave _create_client, over all that client.connect may raise.
CreateErrors == {Classify(cause).raises : cause \in ConnectCauses}

\* Every exception of client.connect meets one clause, which closes the client and
\* raises the error of its cause; the three errors are of three classes.
EachCauseClassified ==
    /\ \A cause \in ConnectCauses :
         /\ Classify(cause).closes
         /\ Classify(cause).raises =
               IF cause \in {"AuthenticationException", "BadAuthenticationType"}
               THEN "auth"
               ELSE IF cause = "TimeoutError" THEN "conn_timeout"
               ELSE "conn_other"
         /\ Cardinality({i \in 1 .. Len(ExceptClauses) :
                           ExceptClauses[i].raises = Classify(cause).raises}) = 1
    /\ Cardinality({ErrClass(k) : k \in {"auth", "conn_timeout", "conn_other"}}) = 3

\* get_client: _create_client fails; the error leaves get_client.
GcCreateFail(t) ==
    /\ call[t].pc = "gc_create"
    /\ \E kind \in CreateErrors :
        call' = [call EXCEPT ![t] =
                    Fails([call[t] EXCEPT !.connects = @ + 1], kind)]
    /\ lock' = Unlock(t)
    /\ UNCHANGED <<pool, now, nextId, transportUp, closed, ncalls, menu, broken>>
    /\ UNCHANGED elsewhere

\* run: exec_command and the reads run to their end.
ExecOk(t) ==
    /\ call[t].pc = "exec"
    /\ IsActive(call[t].client)
    /\ \E a \in RemoteAnswers :
        call' = [call EXCEPT ![t] =
                    Ended([call[t] EXCEPT !.execs = @ + 1, !.result =
                                [stdout |-> a.stdout, stderr |-> a.stderr,
                                 exit_code |-> a.exit_code, host |-> call[t].host,
                                 command |-> call[t].command]],
                          "returned")]
    /\ UNCHANGED <<pool, lock, now, nextId, transportUp, closed, ncalls, menu, broken>>
    /\ UNCHANGED elsewhere

\* run: except TimeoutError -> raise SSHConnectionError("Command timed out ...").
ExecTimeout(t) ==
    /\ call[t].pc = "exec"
    /\ IsActive(call[t].client)
    /\ call' = [call EXCEPT ![t] =
                    Fails([call[t] EXCEPT !.execs = @ + 1], "cmd_timeout")]
    /\ UNCHANGED <<pool, lock, now, nextId, transportUp, closed, ncalls, menu, broken>>
    /\ UNCHANGED elsewhere

\* A handler that evicts nothing (a variant C8 must tell from the real one).
EvictPoolNothing(h) == pool

\* if host.name in self._pool: del self._pool[host.name]
EvictPool(h) == IF InPool(h) THEN PoolDel(h) ELSE pool

\* run: exec_command raises paramiko.SSHException (always so on a dead transport);
\* the handler evicts under the lock and raises SSHConnectionError.
ExecProtocolError(t) ==
    /\ call[t].pc = "exec"
    /\ CanLock(t)
    /\ pool' = EvictPool(call[t].host)
    /\ broken' = broken \cup {call[t].client}
    /\ call' = [call EXCEPT ![t] =
                    Fails([call[t] EXCEPT !.execs = @ + 1], "protocol")]
    /\ UNCHANGED <<lock, now, nextId, transportUp, closed, ncalls, menu>>
    /\ UNCHANGED elsewhere

\* close(host_name)
Close(t) ==
    /\ "close" \in menu[t]
    /\ call[t].pc = "idle"
    /\ ncalls < MaxCalls
    /\ CanLock(t)
    /\ \E h \in Hosts :
        /\ IF InPool(h)
           THEN /\ closed' = closed \cup {PoolGet(h).client}
                /\ \E failed \in SUBSET {PoolGet(h).client} :
                       transportUp' = UpAfterClose({PoolGet(h).client}, failed)
                /\ pool' = PoolDel(h)
           ELSE UNCHANGED <<pool, closed, transportUp>>
        /\ call' = [call EXCEPT ![t] =
                        [IdleCall EXCEPT !.op = "close", !.host = h,
                                         !.outcome = "returned"]]
    /\ ncalls' = ncalls + 1
    /\ UNCHANGED <<lock, now, nextId, menu, broken>>
    /\ UNCHANGED elsewhere

\* close_all()
CloseAll(t) ==
    /\ "close_all" \in menu[t]
    /\ call[t].pc = "idle"
    /\ ncalls < MaxCalls
    /\ CanLock(t)
    /\ closed' = closed \cup PooledClients
    /\ \E failed \in SUBSET PooledClients :
           transportUp' = UpAfterClose(PooledClients, failed)
    /\ pool' = {}
    /\ call' = [call EXCEPT ![t] =
                    [IdleCall EXCEPT !.op = "close_all", !.outcome = "returned"]]
    /\ ncalls' = ncalls + 1
    /\ UNCHANGED <<lock, now, nextId, menu, broken>>
    /\ UNCHANGED elsewhere

\* The clients something still refers to: the pooled ones, and those a call holds.
Referenced == PooledClients \cup {call[t].client : t \in {u \in Callers : call[u].pc # "idle"}}

\* The clock advances.  The program reads it only to take the age of a pooled
\* entry and to stamp a new one, so it is followed while some pooled entry is not
\* yet older than pool_max_age; past that, more time changes nothing it can see.
Tick ==
    /\ now < MaxTime
    /\ \E e \in pool : now - e.created_at <= PoolMaxAge
    /\ now' = now + 1
    /\ UNCHANGED <<pool, lock, nextId, transportUp, closed, call, ncalls, menu, broken>>
    /\ UNCHANGED elsewhere

\* The transport of an open client goes down (seen only through a reference).
TransportDrop ==
    /\ \E s \in transportUp \cap Referenced : transportUp' = transportUp \ {s}
    /\ UNCHANGED <<pool, lock, now, nextId, closed, call, ncalls, menu, broken>>
    /\ UNCHANGED elsewhere

Next ==
    \/ \E t \in Callers : StartAcquire(t)
    \/ \E t \in Callers : StartRun(t)
    \/ \E t \in Callers : GcCheck(t)
    \/ \E t \in Callers : GcCreateOk(t)
    \/ \E t \in Callers : GcCreateFail(t)
    \/ \E t \in Callers : ExecOk(t)
    \/ \E t \in Callers : ExecTimeout(t)
    \/ \E t \in Callers : ExecProtocolError(t)
    \/ \E t \in Callers : Close(t)
    \/ \E t \in Callers : CloseAll(t)
    \/ Tick
    \/ TransportDrop

Spec == Init /\ [][Next]_vars

(***************************************************************************)
(* utils/retry.py: retry_with_backoff around any function, followed on its *)
(* own.  Delays are whole seconds.                                         *)
(***************************************************************************)
MaxBudget == 3

\* The arguments of the decorator.
Budgets == 0 .. MaxBudget
BaseDelays == {0, 1, 3}
ExpBases == {1, 2}
MaxDelays == {2, 5}
AllowLists == {{"Exception"}, {"SSHConnectionError"}}
Observers == {"none", "quiet", "raising"}

\* What one invocation of the function does: it returns, or raises one of these.
OpErrors == {"SSHTimeoutError", "SSHConnectionError", "GrovectlError"}

\* random.random() * 0.5, in quarters: 0 or 1/4.
Jitters == {0, 1}

RECURSIVE Pow(_, _)
Pow(b, n) == IF n = 0 THEN 1 ELSE b * Pow(b, n - 1)

Min(a, b) == IF a <= b THEN a ELSE b

BackoffUncapped(attempt, base_delay, exponential_base, max_delay) ==
    base_delay * Pow(exponential_base, attempt - 1)

\* delay = min(base_delay * (exponential_base ** (attempt - 1)), max_delay)
Backoff(attempt, base_delay, exponential_base, max_delay) ==
    Min(base_delay * Pow(exponential_base, attempt - 1), max_delay)

\* A wrapper that catches every error (a variant C13 must tell from the real one).
CatchesAll(allow, cls) == TRUE

\* except exceptions as e, for the exceptions= of this decorator.
Catches(allow, cls) == \E base \in allow : IsSubclass(cls, base)

ExhaustedLate(attempt, max_attempts) == attempt > max_attempts

\* if attempt >= max_attempts: raise
Exhausted(attempt, max_attempts) == attempt >= max_attempts

NoOutcome == [kind |-> "none", cls |-> "none", of |-> 0]

\* The decorated function is called: the wrapper enters its loop.
RetryInit ==
    /\ pool = {}
    /\ lock = NoThread
    /\ now = 0
    /\ nextId = 1
    /\ transportUp = {}
    /\ closed = {}
    /\ call = [t \in Callers |-> IdleCall]
    /\ ncalls = 0
    /\ menu = [t \in Callers |-> {}]
    /\ broken = {}
    /\ bt = NoBatch
    /\ vo = NoOperation
    /\ \E m \in Budgets, b \in BaseDelays, x \in ExpBases, d \in MaxDelays,
          j \in BOOLEAN, a \in AllowLists, o \in Observers :
        rw = [pc |-> "loop", max_attempts |-> m, base_delay |-> b,
              exponential_base |-> x, max_delay |-> d, jitter |-> j,
              exceptions |-> a, on_retry |-> o,
              attempt |-> 1, last_exception |-> NoOutcome, delay |-> 0,
              calls |-> 0, naps |-> <<>>, seen |-> <<>>, final |-> NoOutcome]

sshVars == <<pool, lock, now, nextId, transportUp, closed, call, ncalls, menu, broken>>

\* What the wrapper leaves alone.
notRetry == <<sshVars, bt, vo>>

\* for attempt in range(1, max_attempts + 1): try: return func(*args, **kwargs)
\* except exceptions as e: ... up to the computation of the delay.
RwAttempt ==
    /\ rw.pc = "loop"
    /\ rw.attempt <= rw.max_attempts
    /\ \E o \in {"value"} \cup OpErrors :
        LET r == [rw EXCEPT !.calls = @ + 1]
            e == [kind |-> "error", cls |-> o, of |-> rw.attempt]
        IN  rw' =
              IF o = "value"
              THEN [r EXCEPT !.pc = "done",
                             !.final = [kind |-> "value", cls |-> "none", of |-> rw.attempt]]
              ELSE IF ~Catches(rw.exceptions, o)
              THEN [r EXCEPT !.pc = "done", !.final = e]
              ELSE IF Exhausted(rw.attempt, rw.max_attempts)
              THEN [r EXCEPT !.pc = "done", !.final = e, !.last_exception = e]
              ELSE [r EXCEPT !.last_exception = e,
                             !.delay = Backoff(rw.attempt, rw.base_delay,
                                               rw.exponential_base, rw.max_delay),
                             !.pc = IF rw.on_retry # "none" THEN "observe" ELSE "sleep"]
    /\ UNCHANGED notRetry

\* if on_retry: on_retry(e, attempt)
RwObserve ==
    /\ rw.pc = "observe"
    /\ rw' = IF rw.on_retry = "raising"
             THEN [rw EXCEPT !.pc = "done",
                             !.seen = Append(@, <<rw.last_exception, rw.attempt>>),
                             !.final = [kind |-> "error", cls |-> "ObserverError",
                                        of |-> rw.attempt]]
             ELSE [rw EXCEPT !.pc = "sleep",
                             !.seen = Append(@, <<rw.last_exception, rw.attempt>>)]
    /\ UNCHANGED notRetry

\* if jitter: delay = delay * (1 + random.random() * 0.5); time.sleep(delay), and
\* the loop goes on to the next attempt.  The sleep is noted in quarters of a second.
RwSleep ==
    /\ rw.pc = "sleep"
    /\ \E q \in (IF rw.jitter THEN Jitters ELSE {0}) :
        rw' = [rw EXCEPT !.pc = "loop",
                         !.attempt = @ + 1,
                         !.naps = Append(@, [delay |-> rw.delay,
                                             slept |-> rw.delay * (4 + q)])]
    /\ UNCHANGED notRetry

\* The loop ended without a return or a raise (max_attempts < 1):
\* raise RuntimeError("Unexpected retry loop exit")
RwLoopExit ==
    /\ rw.pc = "loop"
    /\ rw.attempt > rw.max_attempts
    /\ rw' = [rw EXCEPT !.pc = "done",
                        !.final = IF rw.last_exception # NoOutcome
                                  THEN rw.last_exception
                                  ELSE [kind |-> "error", cls |-> "RuntimeError", of |-> 0]]
    /\ UNCHANGED notRetry

RetryNext ==
    \/ RwAttempt
    \/ RwObserve
    \/ RwSleep
    \/ RwLoopExit

RetrySpec == RetryInit /\ [][RetryNext]_vars

(***************************************************************************)
(* core/ssh.py: one call of SSHManager.run as VMManager sees it: the       *)
(* attempts the retry wrapper makes, and how the last one ends.            *)
(***************************************************************************)
\* How one attempt of run ends: with a failure of one of the kinds above, with an
\* exception of exec_command that run has no handler for, or with the command run
\* to its end ("done").
AttemptEnds == ErrorKinds \cup {"exec_other", "done"}

\* The attempts that reached client.exec_command.
Executing == {"cmd_timeout", "protocol", "exec_other", "done"}

\* The wrapper sleeps and calls run again after attempt i ended this way.
Retried(end, i) == end \in ErrorKinds /\ Caught(end) /\ ~GivesUp(i)

\* The class of the exception that leaves run when its last attempt ends this way.
RunRaises(end) == IF end = "exec_other" THEN "OSError" ELSE ErrClass(end)

\* The calls of run: every attempt but the last is retried, the last is not.
RunTranscripts ==
    {tr \in UNION {[1 .. n -> AttemptEnds] : n \in 1 .. MaxAttempts} :
        \A i \in 1 .. Len(tr) : (i < Len(tr)) <=> Retried(tr[i], i)}

\* A call of run in short: how it ended, how many times the command was issued to
\* the remote side, how many times the wrapper slept.
RunSummaries ==
    {[end |-> tr[Len(tr)],
      issued |-> Cardinality({i \in 1 .. Len(tr) : tr[i] \in Executing}),
      sleeps |-> Len(tr) - 1] : tr \in RunTranscripts}

(***************************************************************************)
(* core/vm_manager.py: batch_start and batch_stop, followed on their own.  *)
(* list_vms is taken by what it returns, start_vm and stop_vm by the call  *)
(* of run they make and by what they return or raise.                      *)
(***************************************************************************)
MaxVMs == 3

VMNames == {"vm-1", "vm-2"}
VMStates == {"running", "stopped", "unknown"}

\* The registry: self.config.hosts, in the order of the configuration.
HostOrder == <<"A", "B">>

\* What one host may list: some VMs, each name once, in any order and any state.
HostListings(h) ==
    {l \in UNION {[1 .. n -> [name : VMNames, host : {h}, state : VMStates]] :
                     n \in 0 .. Cardinality(VMNames)} :
        \A i \in DOMAIN l, j \in DOMAIN l : i # j => l[i].name # l[j].name}

\* What list_vms may return: up to MaxVMs VMs, the VMs of each host together, the
\* hosts in the order of the registry.
VMLists ==
    {la \o lb : la \in HostListings(HostOrder[1]), lb \in HostListings(HostOrder[2])}
        \cap UNION {[1 .. n -> [name : VMNames, host : Hosts, state : VMStates]] :
                       n \in 0 .. MaxVMs}

\* What start_vm or stop_vm may raise after a command that exited non-zero.
VMOpErrors == {"VMNotFoundError", "VMStartError", "VMStopError"}

\* The ways run fails that the batch is followed for: the connection errors of the
\* base class and the exception run does not handle (the two subclasses of the
\* connection error are caught by the same clause).
BatchRunErrors == {"conn_other", "cmd_timeout", "protocol", "exec_other"}

\* How a call of start_vm or stop_vm may go: the call of run it makes, and what it
\* returns ("ok") or raises: the error of run, or for a command that exited
\* non-zero the not-found or the operation error.
VMOpOutcomes(op) ==
    {[raises |-> RunRaises(r.end), issued |-> r.issued] :
        r \in {q \in RunSummaries : q.end \in BatchRunErrors}}
    \cup {[raises |-> e, issued |-> r.issued] :
            e \in {"ok", "VMNotFoundError", IF op = "start" THEN "VMStartError" ELSE "VMStopError"},
            r \in {q \in RunSummaries : q.end = "done"}}

\* An except clause that lets connection errors through (a variant C21 must tell
\* from the real one).
BatchCatchesVMErrors(cls) == IsSubclass(cls, "VMOperationError")

\* except Exception as e
BatchCatches(cls) == IsSubclass(cls, "Exception")

\* No command was issued for a VM.
NoCommand == [host |-> "none", name |-> "none", issued |-> 0]

\* A call that goes to the first host of the registry whatever the host of the VM
\* (a variant C40 must tell from the real one).
OperateOnFirstHost(vm, issued) == [host |-> HostOrder[1], name |-> vm.name, issued |-> issued]

\* self.start_vm(vm.name, vm.host, ...) / self.stop_vm(vm.name, vm.host, ...): the
\* command goes to the host of that name, for the VM of that name.
Operate(vm, issued) == [host |-> vm.host, name |-> vm.name, issued |-> issued]

\* The state in which a VM needs no command.
TargetState(op) == IF op = "start" THEN "running" ELSE "stopped"

AlreadyMessage(op) == IF op = "start" THEN "Already running" ELSE "Already stopped"

DoneMessage(op) == IF op = "start" THEN "Started" ELSE "Stopped"

\* An entry that does not name its VM (a variant C20 must tell from the real one).
EntryAnonymous(vm, success, message) == <<"unknown", success, message>>

\* (vm.name, True, "...") / (vm.name, False, str(e))
Entry(vm, success, message) == <<vm.name, success, message>>

\* batch_start(pattern, host_name) or batch_stop(pattern, host_name, force) is called.
BatchInit ==
    /\ pool = {}
    /\ lock = NoThread
    /\ now = 0
    /\ nextId = 1
    /\ transportUp = {}
    /\ closed = {}
    /\ call = [t \in Callers |-> IdleCall]
    /\ ncalls = 0
    /\ menu = [t \in Callers |-> {}]
    /\ broken = {}
    /\ rw = NoRetryCall
    /\ vo = NoOperation
    /\ \E op \in {"start", "stop"} :
        bt = [pc |-> "list", op |-> op, vms |-> <<>>, i |-> 1, results |-> <<>>,
              last |-> NoCommand]

\* What the batch leaves alone.
notBatch == <<sshVars, rw, vo>>

\* vms = self.list_vms(host_name=host_name, pattern=pattern); results = []
BtList ==
    /\ bt.pc = "list"
    /\ \E l \in VMLists : bt' = [bt EXCEPT !.pc = "loop", !.vms = l]
    /\ UNCHANGED notBatch

\* for vm in vms: the VM is in the target state: an entry, and continue.
BtAlready ==
    /\ bt.pc = "loop"
    /\ bt.i <= Len(bt.vms)
    /\ bt.vms[bt.i].state = TargetState(bt.op)
    /\ bt' = [bt EXCEPT !.i = @ + 1,
                        !.last = NoCommand,
                        !.results = Append(@, Entry(bt.vms[bt.i], TRUE,
                                                    AlreadyMessage(bt.op)))]
    /\ UNCHANGED notBatch

\* for vm in vms: start_vm / stop_vm(vm.name, vm.host) returns.
BtOperateOk ==
    /\ bt.pc = "loop"
    /\ bt.i <= Len(bt.vms)
    /\ bt.vms[bt.i].state # TargetState(bt.op)
    /\ \E o \in VMOpOutcomes(bt.op) :
        /\ o.raises = "ok"
        /\ bt' = [bt EXCEPT !.i = @ + 1,
                            !.last = Operate(bt.vms[bt.i], o.issued),
                            !.results = Append(@, Entry(bt.vms[bt.i], TRUE,
                                                        DoneMessage(bt.op)))]
    /\ UNCHANGED notBatch

\* for vm in vms: start_vm / stop_vm raises; except Exception as e: an entry with
\* str(e); an exception the clause does not catch leaves the batch.
BtOperateFail ==
    /\ bt.pc = "loop"
    /\ bt.i <= Len(bt.vms)
    /\ bt.vms[bt.i].state # TargetState(bt.op)
    /\ \E o \in VMOpOutcomes(bt.op) :
        /\ o.raises # "ok"
        /\ bt' = IF BatchCatches(o.raises)
                 THEN [bt EXCEPT !.i = @ + 1,
                                 !.last = Operate(bt.vms[bt.i], o.issued),
                                 !.results = Append(@, Entry(bt.vms[bt.i], FALSE,
                                                             o.raises))]
                 ELSE [bt EXCEPT !.pc = "raised",
                                 !.last = Operate(bt.vms[bt.i], o.issued)]
    /\ UNCHANGED notBatch

\* return results
BtReturn ==
    /\ bt.pc = "loop"
    /\ bt.i > Len(bt.vms)
    /\ bt' = [bt EXCEPT !.pc = "done"]
    /\ UNCHANGED notBatch

BatchNext ==
    \/ BtList
    \/ BtAlready
    \/ BtOperateOk
    \/ BtOperateFail
    \/ BtReturn

BatchSpec == BatchInit /\ [][BatchNext]_vars

(***************************************************************************)
(* core/vm_manager.py: list_vms, get_vm, start_vm, stop_vm, delete_vm,     *)
(* clone_vm and create_vm, one call followed on its own.  Every call of    *)
(* SSHManager.run is followed attempt by attempt; the remote side answers  *)
(* with an exit code, a stderr text and, for a listing, a stdout.          *)
(***************************************************************************)

\* Text is a sequence of characters where the code looks inside it.
LowerChar(c) ==
    LET UpperCase == <<"A", "B", "C", "D", "E", "F", "G", "H", "I", "J", "K", "L", "M",
                       "N", "O", "P", "Q", "R", "S", "T", "U", "V", "W", "X", "Y", "Z">>
        LowerCase == <<"a", "b", "c", "d", "e", "f", "g", "h", "i", "j", "k", "l", "m",
                       "n", "o", "p", "q", "r", "s", "t", "u", "v", "w", "x", "y", "z">>
    IN  IF \E k \in DOMAIN UpperCase : UpperCase[k] = c
        THEN LowerCase[CHOOSE k \in DOMAIN UpperCase : UpperCase[k] = c]
        ELSE c

\* str.lower()
Lower(s) == [k \in DOMAIN s |-> LowerChar(s[k])]

\* sub in s
Contains(s, sub) ==
    \E k \in 0 .. Len(s) - Len(sub) : SubSeq(s, k + 1, k + Len(sub)) = sub

NotFoundMarker == <<"n", "o", "t", " ", "f", "o", "u", "n", "d">>

\* "not found" in result.stderr.lower()
SaysNotFoundExact(stderr) == Contains(stderr, NotFoundMarker)
SaysNotFound(stderr) == Contains(Lower(stderr), NotFoundMarker)

\* What the remote side may write to stderr: three texts that hold the marker in
\* some letter case, and "notfound", "denied" and the empty text, which do not.
VmNotFoundText ==
    <<"V", "M", " ", "n", "o", "t", " ", "f", "o", "u", "n", "d">>
UpperNotFoundText ==
    <<"E", "r", "r", "o", "r", ":", " ", "N", "O", "T", " ", "F", "O", "U", "N", "D">>
TitleNotFoundText == <<"N", "o", "t", " ", "F", "o", "u", "n", "d">>

Stderrs ==
    {VmNotFoundText, UpperNotFoundText, TitleNotFoundText,
     <<"n", "o", "t", "f", "o", "u", "n", "d">>,
     <<"d", "e", "n", "i", "e", "d">>, <<>>}

\* An optional number: None, or a value.
Unset == [set |-> FALSE, v |-> 0]
Some(n) == [set |-> TRUE, v |-> n]

\* config.defaults
DefaultCpu == 4
DefaultMemory == 8192
DefaultDisk == 50

\* "x or d": d when x is None or 0.
OrDefault(x, d) == IF x.set /\ x.v # 0 THEN x.v ELSE d

\* str(n), for the numbers a call is followed with.
Str(n) ==
    CASE n = 2 -> "2"
      [] n = 4 -> "4"
      [] n = 4096 -> "4096"
      [] n = 8192 -> "8192"

\* A VM value.
NewVM(name, host, state) ==
    [name |-> name, host |-> host, state |-> state,
     cpu |-> Unset, memory |-> Unset, disk |-> Unset, ip_address |-> "none",
     source_image |-> "none"]

NoVM == NewVM("none", "none", "none")

\* models/vm.py: VMState(text), the member with that value; "invalid" stands for
\* the ValueError of a text that is no value of the enumeration.
VMState(text) ==
    CASE text = <<"r", "u", "n", "n", "i", "n", "g">> -> "running"
      [] text = <<"s", "t", "o", "p", "p", "e", "d">> -> "stopped"
      [] text = <<"s", "t", "a", "r", "t", "i", "n", "g">> -> "starting"
      [] text = <<"s", "t", "o", "p", "p", "i", "n", "g">> -> "stopping"
      [] text = <<"s", "u", "s", "p", "e", "n", "d", "e", "d">> -> "suspended"
      [] text = <<"u", "n", "k", "n", "o", "w", "n">> -> "unknown"
      [] OTHER -> "invalid"

\* VM.from_tart_output: the state of an item, from
\* tart_data.get("State", "unknown").lower().
StateOfAsWritten(item) ==
    IF item.State.given /\ VMState(item.State.text) # "invalid"
    THEN VMState(item.State.text)
    ELSE "unknown"
StateOf(item) ==
    LET state_str == IF item.State.given THEN Lower(item.State.text)
                     ELSE <<"u", "n", "k", "n", "o", "w", "n">>
    IN  IF VMState(state_str) # "invalid" THEN VMState(state_str) ELSE "unknown"

\* The items of a listing in a call: Name is a VM name, the empty text, or missing;
\* State is "Running" or "paused"; no CPU, Memory, Disk or Source.
Items ==
    [Name : VMNames \cup {"", "missing"},
     State : {[given |-> TRUE, text |-> <<"R", "u", "n", "n", "i", "n", "g">>],
              [given |-> TRUE, text |-> <<"p", "a", "u", "s", "e", "d">>]},
     CPU : {Unset}, Memory : {Unset}, Disk : {Unset}, Source : {"none"}]

MaxItems == 2

\* What the remote side may write to stdout for a listing: nothing, text that is
\* not JSON, JSON that is not a list of objects, or a list of items.  The stdout
\* of a result of run under dry_run has the kind "dry-run".
NoStdout == [kind |-> "empty", items |-> <<>>]
Stdouts ==
    {NoStdout, [kind |-> "garbage", items |-> <<>>], [kind |-> "scalar", items |-> <<>>]}
        \cup {[kind |-> "json", items |-> l] :
                 l \in UNION {[1 .. n -> Items] : n \in 0 .. MaxItems}}

\* item.get("Name", "unknown")
NameOf(item) == IF item.Name = "missing" THEN "unknown" ELSE item.Name

\* VM.from_tart_output(name, host, tart_data), for an item VM(...) accepts.
FromTartOutput(name, host, tart_data) ==
    [NewVM(name, host, StateOf(tart_data)) EXCEPT
        !.cpu = tart_data.CPU, !.memory = tart_data.Memory, !.disk = tart_data.Disk,
        !.source_image = tart_data.Source]

\* _parse_tart_list, with the exception it lets through: "raised" stands for the
\* error of a value that is not a list of objects or of an item VM(...) rejects;
\* VM(...) accepts a name of at least one character, cpu >= 1, memory >= 512 and
\* disk >= 1 where they are given.
ParseTartList(output, host_name) ==
    LET Accepted(item) ==
            /\ NameOf(item) # ""
            /\ item.CPU.set => item.CPU.v >= 1
            /\ item.Memory.set => item.Memory.v >= 512
            /\ item.Disk.set => item.Disk.v >= 1
    IN
    IF output.kind \in {"empty", "dry-run", "garbage"}
    THEN [raised |-> FALSE, vms |-> <<>>]
    ELSE IF output.kind = "scalar" \/ \E k \in DOMAIN output.items : ~Accepted(output.items[k])
    THEN [raised |-> TRUE, vms |-> <<>>]
    ELSE [raised |-> FALSE,
          vms |-> [k \in DOMAIN output.items |->
                      FromTartOutput(NameOf(output.items[k]), host_name, output.items[k])]]

\* What run returns or raises.
RunResult(exit_code, stderr, stdout) ==
    [kind |-> "result", cls |-> "none", exit_code |-> exit_code, stderr |-> stderr,
     stdout |-> stdout]
RunRaised(cls) ==
    [kind |-> "raised", cls |-> cls, exit_code |-> 0, stderr |-> <<>>, stdout |-> NoStdout]
NoRunResult == [kind |-> "none", cls |-> "none", exit_code |-> 0, stderr |-> <<>>,
             stdout |-> NoStdout]

\* SSHResult.success
SuccessAlways(result) == TRUE
SuccessIfQuiet(result) == result.exit_code = 0 /\ ~SaysNotFound(result.stderr)
Success(result) == result.exit_code = 0

\* _list_vms_on_host: the VMs of one host, nothing when the listing failed in any way.
ListVmsOnHostUntagged(result, host_name) ==
    IF result.kind = "raised" THEN <<>>
    ELSE IF ~Success(result) THEN <<>>
    ELSE IF ParseTartList(result.stdout, "none").raised THEN <<>>
    ELSE ParseTartList(result.stdout, "none").vms
ListVmsOnHost(result, host_name) ==
    IF result.kind = "raised" THEN <<>>
    ELSE IF ~Success(result) THEN <<>>
    ELSE IF ParseTartList(result.stdout, host_name).raised THEN <<>>
    ELSE ParseTartList(result.stdout, host_name).vms

\* _run_tart: the command line, as its parts.
TartCommand(subcommand, args, json_output) ==
    <<"tart", subcommand>> \o (IF json_output THEN <<"--format", "json">> ELSE <<>>) \o args

ListCommand == TartCommand("list", <<>>, TRUE)

\* The host names a call is followed with: "Z" is not in the registry.
HostArgs == Hosts \cup {"Z"}

\* The image a clone or a create starts from.
SourceImage == "img"

\* A call of run: the host, the command, the attempts made, the attempts that
\* called get_client, the attempts that executed the command, the sleeps between
\* attempts, and whether the command has run to its exit.
NoRun == [host |-> "none", cmd |-> <<>>, attempt |-> 0, connects |-> 0, issued |-> 0,
          sleeps |-> 0, exited |-> FALSE]
NoError == [cls |-> "none", vm_name |-> "none", operation |-> "none", host |-> "none",
            message |-> <<>>]
NoReturn == [kind |-> "none", ret |-> "none", vm |-> NoVM, vms |-> <<>>, err |-> NoError]

\* A call with its arguments, before its first statement, on a VMManager that is
\* not in dry-run mode.
OperationCall(op, name, host, force, cpu, memory, disk) ==
    [pc |-> "call", dry_run |-> FALSE, op |-> op, name |-> name, host |-> host, force |-> force,
     cpu |-> cpu, memory |-> memory, disk |-> disk,
     step |-> "none", todo |-> <<>>, acc |-> <<>>, cur |-> NoRun, log |-> <<>>,
     res |-> NoRunResult, out |-> NoReturn]

VmInit ==
    /\ pool = {}
    /\ lock = NoThread
    /\ now = 0
    /\ nextId = 1
    /\ transportUp = {}
    /\ closed = {}
    /\ call = [t \in Callers |-> IdleCall]
    /\ ncalls = 0
    /\ menu = [t \in Callers |-> {}]
    /\ broken = {}
    /\ rw = NoRetryCall
    /\ bt = NoBatch
    /\ \E dry_run \in BOOLEAN,
          o \in {OperationCall("list", "none", "none", FALSE, Unset, Unset, Unset)}
                 \cup {OperationCall("list", "none", host, FALSE, Unset, Unset, Unset) :
                          host \in HostArgs}
                 \cup {OperationCall(op, name, host, FALSE, Unset, Unset, Unset) :
                          op \in {"get", "start", "delete", "clone"}, name \in VMNames,
                          host \in HostArgs}
                 \cup {OperationCall("stop", name, host, force, Unset, Unset, Unset) :
                          name \in VMNames, host \in HostArgs, force \in BOOLEAN}
                 \cup {OperationCall("create", name, host, FALSE, cpu, memory, disk) :
                          name \in VMNames, host \in HostArgs,
                          cpu \in {Unset, Some(0), Some(2)}, memory \in {Unset, Some(4096)},
                          disk \in {Unset, Some(100)}} :
          vo = [o EXCEPT !.dry_run = dry_run]

notOperation == <<sshVars, rw, bt>>

\* raise: HostNotFoundError(host), an error of run (the class alone), or
\* VMOperationError(vm_name, operation, message, host) or a subclass of it.
RaiseError(cls, vm_name, operation, message, host) ==
    [kind |-> "raised", ret |-> "none", vm |-> NoVM, vms |-> <<>>,
     err |-> [cls |-> cls, vm_name |-> vm_name, operation |-> operation, host |-> host,
              message |-> message]]

\* return: a VM, None, True or a list of VMs.
Return(ret, vm, vms) == [NoReturn EXCEPT !.kind = "returned", !.ret = ret, !.vm = vm, !.vms = vms]

\* The first command of an operation on a host of the registry.
FirstCommand(o) ==
    CASE o.op \in {"list", "get"} -> ListCommand
      [] o.op = "start" -> TartCommand("run", <<o.name, "--no-graphics">>, FALSE)
      [] o.op = "stop" ->
            TartCommand("stop", <<o.name>> \o (IF o.force THEN <<"--force">> ELSE <<>>), FALSE)
      [] o.op = "delete" -> TartCommand("delete", <<o.name>>, FALSE)
      [] o.op \in {"clone", "create"} -> TartCommand("clone", <<SourceImage, o.name>>, FALSE)

\* The hand-over of a command to run: _run_tart(host, ...).
Begin(o, step, host, cmd) ==
    [o EXCEPT !.pc = "run", !.step = step,
              !.cur = [NoRun EXCEPT !.host = host, !.cmd = cmd],
              !.res = NoRunResult]

Finish(o, outcome) == [o EXCEPT !.pc = "done", !.out = outcome]

\* config.get_host(host_name) is not None
InRegistryAlways(host_name) == TRUE
InRegistry(host_name) == host_name \in Hosts

\* _get_host raises: the named host is not in the registry.
VoHostNotFound ==
    /\ vo.pc = "call"
    /\ vo.host # "none"
    /\ ~InRegistry(vo.host)
    /\ vo' = Finish(vo, RaiseError("HostNotFoundError", "none", "none", <<>>, vo.host))
    /\ UNCHANGED notOperation

\* The host is found, or list goes over the whole registry, self.config.hosts: the
\* first command.
VoBegin ==
    /\ vo.pc = "call"
    /\ vo.host = "none" \/ InRegistry(vo.host)
    /\ LET hosts == IF vo.host = "none" THEN HostOrder ELSE <<vo.host>>
       IN  vo' = Begin([vo EXCEPT !.todo = Tail(hosts)],
                       IF vo.op \in {"list", "get"} THEN "list" ELSE "main",
                       Head(hosts), FirstCommand(vo))
    /\ UNCHANGED notOperation

\* run under dry_run=self.dry_run: the first attempt returns the result that marks
\* the command as not executed, before get_client.
VoDryRun ==
    /\ vo.pc = "run"
    /\ IsDryRun(vo.dry_run)
    /\ LET cur == [vo.cur EXCEPT !.attempt = @ + 1]
       IN  vo' = [vo EXCEPT !.pc = "ran", !.cur = cur, !.log = Append(@, cur),
                            !.res = RunResult(0, <<>>, [kind |-> "dry-run", items |-> <<>>])]
    /\ UNCHANGED notOperation

\* One attempt of run that the decorator follows with a sleep and another attempt.
VoRetry ==
    /\ vo.pc = "run"
    /\ ~IsDryRun(vo.dry_run)
    /\ \E end \in AttemptEnds :
        /\ Retried(end, vo.cur.attempt + 1)
        /\ vo' = [vo EXCEPT !.cur.attempt = @ + 1,
                            !.cur.connects = @ + 1,
                            !.cur.issued = IF end \in Executing THEN @ + 1 ELSE @,
                            !.cur.exited = @ \/ end = "done",
                            !.cur.sleeps = @ + 1]
    /\ UNCHANGED notOperation

\* What the remote side may answer to a command that ran to its exit; a listing
\* has at most room items.
Answers(cmd, room) ==
    IF cmd = ListCommand
    THEN {RunResult(0, <<>>, out) : out \in {o \in Stdouts : Len(o.items) <= room}}
             \cup {RunResult(1, <<>>, NoStdout)}
    ELSE {RunResult(code, stderr, NoStdout) : code \in {0, 1}, stderr \in Stderrs}

\* The last attempt of run: it returns the result of the command, or raises.
VoRan ==
    /\ vo.pc = "run"
    /\ ~IsDryRun(vo.dry_run)
    /\ \E end \in AttemptEnds :
        /\ ~Retried(end, vo.cur.attempt + 1)
        /\ \E res \in IF end = "done" THEN Answers(vo.cur.cmd, MaxVMs - Len(vo.acc))
                      ELSE {RunRaised(RunRaises(end))} :
              LET cur == [vo.cur EXCEPT !.attempt = @ + 1,
                                        !.connects = @ + 1,
                                        !.issued = IF end \in Executing THEN @ + 1 ELSE @,
                                        !.exited = @ \/ end = "done"]
              IN  vo' = [vo EXCEPT !.pc = "ran", !.cur = cur, !.log = Append(@, cur),
                                   !.res = res]
    /\ UNCHANGED notOperation

\* get_vm: the first VM of the listing with the name, if any.
Find(vms, name) ==
    IF \E k \in DOMAIN vms : vms[k].name = name
    THEN vms[CHOOSE k \in DOMAIN vms :
                 vms[k].name = name /\ \A j \in DOMAIN vms : vms[j].name = name => k <= j]
    ELSE NoVM

\* start_vm: the VM it returns when the re-query did not find the VM.
SyntheticUnknown(name, host_name) == NewVM(name, host_name, "unknown")
Synthetic(name, host_name) == NewVM(name, host_name, "starting")

\* VMNotFoundError: the message it is built with.
DoesNotExist ==
    <<"V", "M", " ", "d", "o", "e", "s", " ", "n", "o", "t", " ", "e", "x", "i", "s", "t">>

\* The class start_vm, stop_vm, delete_vm and clone_vm raise for a failure that
\* is not a missing VM, and the operation it names.
FailureClass(op) ==
    CASE op = "start" -> "VMStartError"
      [] op = "stop" -> "VMStopError"
      [] op \in {"delete", "clone", "create"} -> "VMOperationError"

\* The listing of one host has ended: list_vms goes to the next host, or ends and
\* list_vms, get_vm or start_vm returns.
VoListed ==
    /\ vo.pc = "ran"
    /\ vo.step \in {"list", "requery"}
    /\ LET acc == vo.acc \o ListVmsOnHost(vo.res, vo.cur.host)
           found == Find(acc, vo.name)
       IN  vo' = IF vo.todo # <<>>
                 THEN Begin([vo EXCEPT !.acc = acc, !.todo = Tail(@)], vo.step,
                            Head(vo.todo), ListCommand)
                 ELSE Finish([vo EXCEPT !.acc = acc],
                             CASE vo.op = "list" -> Return("list", NoVM, acc)
                               [] vo.op = "get" ->
                                    IF found # NoVM THEN Return("vm", found, <<>>)
                                    ELSE Return("none", NoVM, <<>>)
                               [] vo.op = "start" ->
                                    IF found # NoVM THEN Return("vm", found, <<>>)
                                    ELSE Return("vm", Synthetic(vo.name, vo.host), <<>>))
    /\ UNCHANGED notOperation

\* run raised under start_vm, stop_vm, delete_vm, clone_vm or create_vm: none of
\* them has a handler, the call raises the same error.
VoRaised ==
    /\ vo.pc = "ran"
    /\ vo.step \in {"main", "set"}
    /\ vo.res.kind = "raised"
    /\ vo' = Finish(vo, RaiseError(vo.res.cls, "none", "none", <<>>, "none"))
    /\ UNCHANGED notOperation

\* The command of start_vm, stop_vm, delete_vm or clone_vm has exited.
VoExited ==
    /\ vo.pc = "ran"
    /\ vo.step = "main"
    /\ vo.res.kind = "result"
    /\ vo' =
        IF ~Success(vo.res)
        THEN IF vo.op \in {"start", "stop", "delete"} /\ SaysNotFound(vo.res.stderr)
             THEN Finish(vo, RaiseError("VMNotFoundError", vo.name, "find", DoesNotExist,
                                        vo.host))
             ELSE Finish(vo, RaiseError(FailureClass(vo.op), vo.name,
                                        IF vo.op = "create" THEN "clone" ELSE vo.op,
                                        vo.res.stderr, vo.host))
        ELSE CASE vo.op = "start" -> Begin(vo, "requery", vo.host, ListCommand)
               [] vo.op \in {"stop", "clone"} ->
                    Finish(vo, Return("vm", NewVM(vo.name, vo.host, "stopped"), <<>>))
               [] vo.op = "delete" -> Finish(vo, Return("true", NoVM, <<>>))
               [] vo.op = "create" ->
                    Begin(vo, "set", vo.host,
                          TartCommand("set",
                                      <<vo.name, "--cpu", Str(OrDefault(vo.cpu, DefaultCpu)),
                                        "--memory",
                                        Str(OrDefault(vo.memory, DefaultMemory))>>, FALSE))
    /\ UNCHANGED notOperation

\* The configuration command of create_vm has exited, with any exit code.
VoConfigured ==
    /\ vo.pc = "ran"
    /\ vo.step = "set"
    /\ vo.res.kind = "result"
    /\ vo' = Finish(vo, Return("vm",
                                [NewVM(vo.name, vo.host, "stopped") EXCEPT
                                    !.cpu = Some(OrDefault(vo.cpu, DefaultCpu)),
                                    !.memory = Some(OrDefault(vo.memory, DefaultMemory)),
                                    !.disk = Some(OrDefault(vo.disk, DefaultDisk)),
                                    !.source_image = SourceImage],
                                <<>>))
    /\ UNCHANGED notOperation

VmNext ==
    \/ VoHostNotFound
    \/ VoBegin
    \/ VoDryRun
    \/ VoRetry
    \/ VoRan
    \/ VoListed
    \/ VoRaised
    \/ VoExited
    \/ VoConfigured

VmSpec == VmInit /\ [][VmNext]_vars

(***************************************************************************)
(* core/vm_manager.py: the pattern filter of list_vms, followed on its own *)
(* from the combined result of the hosts to the list it returns.  Names    *)
(* and patterns are sequences of characters.                               *)
(***************************************************************************)

\* The SSHManager, the retry wrapper and the batch at rest.
AtRest ==
    /\ pool = {}
    /\ lock = NoThread
    /\ now = 0
    /\ nextId = 1
    /\ transportUp = {}
    /\ closed = {}
    /\ call = [t \in Callers |-> IdleCall]
    /\ ncalls = 0
    /\ menu = [t \in Callers |-> {}]
    /\ broken = {}
    /\ rw = NoRetryCall
    /\ bt = NoBatch

\* The VM names and the patterns the filter is followed with.
GlobNames ==
    << <<"t", "e", "s", "t", "-", "1">>,
       <<"t", "e", "s", "t", "-", "2">>,
       <<"b", "u", "i", "l", "d", "e", "r", "-", "1">>,
       <<"t", "e", "s", "t">> >>
GlobPatterns ==
    << <<"t", "e", "s", "t", "-", "*">>,
       <<"*">>,
       <<"*", "-", "1">>,
       <<"t", "e", "s", "t", "-", "?">>,
       <<"b", "u", "i", "l", "d", "e", "r", "-", "1">>,
       <<"t", "*", "1">>,
       <<"?", "?", "?", "?">> >>

\* fnmatch.fnmatch(name, pat) for patterns of literal characters, "*" and "?":
\* "*" stands for any run of characters, "?" for any one character, and the whole
\* name must match.
FnmatchLiteral(name, pat) == name = pat
RECURSIVE Fnmatch(_, _)
Fnmatch(name, pat) ==
    IF pat = <<>> THEN name = <<>>
    ELSE IF Head(pat) = "*"
    THEN Fnmatch(name, Tail(pat)) \/ (name # <<>> /\ Fnmatch(Tail(name), pat))
    ELSE /\ name # <<>>
         /\ Head(pat) = "?" \/ Head(pat) = Head(name)
         /\ Fnmatch(Tail(name), Tail(pat))

\* "if pattern: all_vms = [vm for vm in all_vms if fnmatch.fnmatch(vm.name, pattern)]"
PatternFilter(all_vms, pattern) ==
    IF pattern.given
    THEN LET Keep(vm) == Fnmatch(vm.name, pattern.text) IN SelectSeq(all_vms, Keep)
    ELSE all_vms

FilterInit ==
    /\ AtRest
    /\ \E all_vms \in UNION {[1 .. n -> [name : {GlobNames[k] : k \in DOMAIN GlobNames},
                                         host : Hosts, state : {"running", "stopped"}]] :
                                n \in 0 .. MaxVMs},
          pattern \in {[given |-> FALSE, text |-> <<>>]}
                          \cup {[given |-> TRUE, text |-> GlobPatterns[k]] :
                                    k \in DOMAIN GlobPatterns} :
          vo = [pc |-> "filter", all_vms |-> all_vms, pattern |-> pattern, out |-> <<>>]

\* The end of list_vms: the filter, and the return.
LvFilter ==
    /\ vo.pc = "filter"
    /\ vo' = [vo EXCEPT !.pc = "done", !.out = PatternFilter(vo.all_vms, vo.pattern)]
    /\ UNCHANGED notOperation

FilterSpec == FilterInit /\ [][LvFilter]_vars

(***************************************************************************)
(* core/vm_manager.py and models/vm.py: _parse_tart_list and               *)
(* VM.from_tart_output, followed on their own from the stdout of a listing *)
(* to the VMs.                                                             *)
(***************************************************************************)

\* The State texts the parser is followed with: "running", "Running", "STOPPED",
\* "paused" and the empty text.
ParseStates ==
    << <<"r", "u", "n", "n", "i", "n", "g">>,
       <<"R", "u", "n", "n", "i", "n", "g">>,
       <<"S", "T", "O", "P", "P", "E", "D">>,
       <<"p", "a", "u", "s", "e", "d">>,
       <<>> >>

\* The items: Name given or missing; State one of the texts or missing; no optional
\* field, all four, or CPU and Memory only.
ParseInit ==
    /\ AtRest
    /\ \E host \in Hosts,
          items \in UNION {[1 .. n ->
                     [Name : {"vm-1", "missing"},
                      State : {[given |-> FALSE, text |-> <<>>]}
                                 \cup {[given |-> TRUE, text |-> ParseStates[k]] :
                                           k \in DOMAIN ParseStates}]
                         \X {<<Unset, Unset, Unset, "none">>,
                             <<Some(4), Some(8192), Some(50), "template-vm">>,
                             <<Some(4), Some(8192), Unset, "none">>}] : n \in 0 .. MaxItems} :
          vo = [pc |-> "parse", host |-> host,
                output |-> [kind |-> "json",
                            items |-> [k \in DOMAIN items |->
                                          [Name |-> items[k][1].Name,
                                           State |-> items[k][1].State,
                                           CPU |-> items[k][2][1], Memory |-> items[k][2][2],
                                           Disk |-> items[k][2][3],
                                           Source |-> items[k][2][4]]]],
                raised |-> FALSE, vms |-> <<>>]

\* _parse_tart_list(result.stdout, host.name)
PtParse ==
    /\ vo.pc = "parse"
    /\ vo' = [vo EXCEPT !.pc = "done",
                        !.raised = ParseTartList(vo.output, vo.host).raised,
                        !.vms = ParseTartList(vo.output, vo.host).vms]
    /\ UNCHANGED notOperation

ParseSpec == ParseInit /\ [][PtParse]_vars

(***************************************************************************)
(* Properties.  A step "of thread t" is a step that changes call[t].pc.    *)
(***************************************************************************)

\* C1: a thread whose previous call was get_client(h) calls get_client(h) again,
\* not forced; when its check finds the session it got before still pooled, with an
\* active transport and younger than pool_max_age, the second call returns that
\* same session and no connection is created.
C1_SequentialReuse ==
    [][\A t \in Callers :
        ( /\ call[t].op = "acquire"
          /\ call[t].pc = "gc_lock"
          /\ call'[t].pc # call[t].pc
          /\ ~call[t].force_new
          /\ call[t].prev # NoClient
          /\ \E e \in pool : /\ e.name = call[t].host
                             /\ e.client = call[t].prev
                             /\ e.client \in transportUp
                             /\ now - e.created_at < PoolMaxAge )
        => ( /\ call'[t].pc = "idle"
             /\ call'[t].outcome = "returned"
             /\ call'[t].client = call[t].prev
             /\ nextId' = nextId
             /\ pool' = pool )]_vars

\* C1 happens: two get_client calls for one host have returned, the second one
\* reusing the session, and one connection was created in all.
C1_Witness ==
    /\ ncalls = 2
    /\ nextId = 2
    /\ \E t \in Callers :
        /\ call[t].op = "acquire"
        /\ call[t].pc = "idle"
        /\ call[t].outcome = "returned"
        /\ call[t].reused
        /\ call[t].client = 1
        /\ menu[t] = PoolMethods
        /\ \A u \in Callers \ {t} : call[u].op = "none"

\* C2: when the check of a non-forced get_client finds a pooled session whose
\* transport is not active or whose age exceeds pool_max_age, it does not return it:
\* the entry leaves the pool and its client is closed, and the call goes on to
\* connect; a get_client that connects returns the client it created, a client
\* never seen before, which is then the pool entry of the host.
C2_StaleNeverReturned ==
    [][\A t \in Callers :
        /\ ( /\ call[t].pc = "gc_lock"
             /\ call'[t].pc # call[t].pc
             /\ ~call[t].force_new
             /\ \E e \in pool : /\ e.name = call[t].host
                                /\ \/ e.client \notin transportUp
                                   \/ now - e.created_at > PoolMaxAge )
           => ( /\ call'[t].pc = "gc_create"
                /\ \A e \in pool : e.name = call[t].host =>
                      /\ e \notin pool'
                      /\ e.client \in closed'
                /\ \A e \in pool' : e.name # call[t].host )
        /\ ( /\ call[t].pc = "gc_create"
             /\ call'[t].pc \in {"idle", "exec"}
             /\ call'[t].outcome # "raised" )
           => ( /\ call'[t].client = nextId
                /\ nextId \notin PooledClients \cup closed \cup transportUp \cup broken
                /\ \A u \in Callers : call[u].client # nextId
                /\ \E e \in pool' : /\ e.name = call[t].host
                                    /\ e.client = call'[t].client
                                    /\ e.created_at = now
                /\ call'[t].client \in transportUp' )]_vars

\* C2 happens: a get_client call found a pooled entry, discarded it, and returned
\* the session it created in its place, which is the pooled one.
C2_Witness ==
    \E t \in Callers :
        /\ call[t].op = "acquire"
        /\ call[t].pc = "idle"
        /\ call[t].outcome = "returned"
        /\ call[t].discarded
        /\ call[t].client = 2
        /\ 1 \in closed
        /\ \E e \in pool : e.name = call[t].host /\ e.client = 2

\* C3: in every reachable state the pool holds at most one entry per host name.
C3_OnePerHost ==
    \A h \in Hosts : Cardinality({e \in pool : e.name = h}) <= 1

\* C3 happens: a forced get_client has put a second session under a host name that
\* held one (the first was neither closed nor evicted), and the other host is pooled
\* too or not; the key holds one entry.
C3_Witness ==
    \E t \in Callers, e \in pool :
        /\ call[t].op = "acquire"
        /\ call[t].force_new
        /\ call[t].outcome = "returned"
        /\ call[t].client = 2
        /\ e.name = call[t].host
        /\ e.client = 2
        /\ 1 \notin closed \cup broken \cup PooledClients

\* C4: two get_client calls for one host that overlap in time (each was inside
\* get_client while the other was), neither forced and neither finding a stale
\* entry, both returning: they return the same session, and at most one of them
\* created it.
C4_ConcurrentAcquire ==
    \A t \in Callers, u \in Callers :
        ( /\ t # u
          /\ call[t].op = "acquire" /\ call[u].op = "acquire"
          /\ call[t].host = call[u].host
          /\ call[t].pc = "idle" /\ call[u].pc = "idle"
          /\ call[t].outcome = "returned" /\ call[u].outcome = "returned"
          /\ ~call[t].force_new /\ ~call[u].force_new
          /\ ~call[t].discarded /\ ~call[u].discarded
          /\ call[t].overlap /\ call[u].overlap )
        => ( /\ call[t].client = call[u].client
             /\ call[t].reused \/ call[u].reused )

\* C4 happens: two threads were inside get_client for one host that had no pooled
\* session; both have returned, one connection was created in all.
C4_Witness ==
    /\ nextId = 2
    /\ ncalls = 2
    /\ \E t \in Callers, u \in Callers :
        /\ t # u
        /\ call[t].op = "acquire" /\ call[u].op = "acquire"
        /\ call[t].host = call[u].host
        /\ call[t].outcome = "returned" /\ call[u].outcome = "returned"
        /\ call[t].pc = "idle" /\ call[u].pc = "idle"
        /\ ~call[t].force_new /\ ~call[u].force_new
        /\ call[t].overlap /\ call[u].overlap
        /\ ~call[t].reused /\ call[u].reused
        /\ call[t].client = 1 /\ call[u].client = 1

\* C5: when the first connection attempt of run fails with an authentication
\* failure, the call ends there: the authentication error is raised to the caller,
\* with one connection attempt made and no backoff sleep.
C5_AuthNeverRetried ==
    [][\A t \in Callers :
        ( /\ call[t].op = "run"
          /\ call[t].pc = "gc_create"
          /\ call[t].attempt = 1
          /\ call'[t].pc # call[t].pc
          /\ call'[t].err = "auth" )
        => ( /\ call'[t].pc = "idle"
             /\ call'[t].outcome = "raised"
             /\ call'[t].sleeps = 0
             /\ call'[t].attempt = 0 )]_vars

C7_ExecTimeoutNotRetried ==
    [][\A t \in Callers :
        /\ ( /\ call[t].pc = "exec"
             /\ call[t].attempt = 1
             /\ call'[t].pc # call[t].pc
             /\ call'[t].err = "cmd_timeout" )
           => ( /\ call'[t].pc = "idle"
                /\ call'[t].outcome = "raised" )
        /\ ( /\ call[t].op = "run"
             /\ call[t].pc = "gc_create"
             /\ call[t].attempt < MaxAttempts
             /\ call'[t].pc # call[t].pc
             /\ call'[t].err = "conn_timeout" )
           => ( /\ call'[t].pc = "gc_lock"
                /\ call'[t].attempt = call[t].attempt + 1 )]_vars

\* C8: when the execution in run fails with a protocol error, the step that raises
\* it leaves the pool with no entry for the host and without the session it failed
\* on; and get_client never returns, to a thread or to run, a session on which run
\* has seen a protocol error.
C8_ProtocolErrorEvicts ==
    [][\A t \in Callers :
        /\ ( /\ call[t].pc = "exec"
             /\ call'[t].pc # call[t].pc
             /\ call'[t].err = "protocol" )
           => ( /\ call[t].client \in broken'
                /\ call[t].client \notin {e.client : e \in pool'}
                /\ \A e \in pool' : e.name # call[t].host )
        /\ ( /\ call[t].pc \in {"gc_lock", "gc_create"}
             /\ call'[t].pc \in {"idle", "exec"}
             /\ call'[t].outcome # "raised" )
           => ( /\ call'[t].client # NoClient
                /\ call'[t].client \notin broken' )]_vars

\* C8 happens: run saw a protocol error on session 1 of its host, and its next
\* attempt got session 2, newly created and pooled, from get_client.
C8_Witness ==
    \E t \in Callers :
        /\ call[t].op = "run"
        /\ call[t].pc = "exec"
        /\ call[t].execs >= 1
        /\ 1 \in broken
        /\ call[t].client = 2
        /\ \E e \in pool : e.name = call[t].host /\ e.client = 2

\* C9: a connection of run that fails with a connection timeout or another
\* transport failure is retried, after a sleep, while attempts remain; on attempt
\* max_attempts the error is raised as it is, the pool holds no entry for the host,
\* there have been max_attempts - 1 sleeps and, when no attempt got as far as
\* executing, exactly max_attempts connection attempts.  A command that runs to its
\* end on any attempt returns its result, with no error.
C9_ConnectionRetried ==
    [][\A t \in Callers :
        /\ ( /\ call[t].op = "run"
             /\ call[t].pc = "gc_create"
             /\ call'[t].pc # call[t].pc
             /\ call'[t].err \in {"conn_timeout", "conn_other"} )
           => ( /\ \A e \in pool' : e.name # call[t].host
                /\ IF call[t].attempt < MaxAttempts
                   THEN /\ call'[t].pc = "gc_lock"
                        /\ call'[t].outcome = "none"
                        /\ call'[t].attempt = call[t].attempt + 1
                        /\ call'[t].sleeps = call[t].sleeps + 1
                        /\ call'[t].connects = call[t].connects + 1
                   ELSE /\ call'[t].pc = "idle"
                        /\ call'[t].outcome = "raised"
                        /\ ErrClass(call'[t].err) \in {"SSHTimeoutError", "SSHConnectionError"}
                        /\ call[t].sleeps = MaxAttempts - 1
                        /\ call[t].execs = 0 => call[t].connects + 1 = MaxAttempts )
        /\ ( /\ call[t].op = "run"
             /\ call[t].pc = "exec"
             /\ call'[t].pc # call[t].pc
             /\ call'[t].err = "none" )
           => ( /\ call'[t].pc = "idle"
                /\ call'[t].outcome = "returned"
                /\ call'[t].result.host = call[t].host
                /\ call'[t].result.command = call[t].command
                /\ call'[t].result.stdout # DryRunStdout )]_vars

\* C9 happens: no connection was ever made, and run has raised a connection
\* error after its attempts.
C9_Witness ==
    \E t \in Callers :
        /\ call[t].op = "run"
        /\ call[t].pc = "idle"
        /\ call[t].outcome = "raised"
        /\ call[t].err \in {"conn_timeout", "conn_other"}
        /\ nextId = 1
        /\ pool = {}

\* C10: run with dry_run returns at once, whatever the pool holds, the result with
\* exit code 0, empty stderr, the host name, the command and the dry-run text in
\* stdout; no session is created, nothing is executed, and the pool, the lock and
\* the clients are as they were.
C10_DryRun ==
    [][\A t \in Callers :
        ( /\ call[t].op = "none"
          /\ call'[t].op = "run"
          /\ call'[t].dry_run )
        => ( /\ call'[t].pc = "idle"
             /\ call'[t].outcome = "returned"
             /\ call'[t].result.exit_code = 0
             /\ call'[t].result.stderr = ""
             /\ call'[t].result.stdout = "[dry-run mode - command not executed]"
             /\ call'[t].result.host = call'[t].host
             /\ call'[t].result.command = call'[t].command
             /\ call'[t].client = NoClient
             /\ call'[t].connects = 0
             /\ call'[t].execs = 0
             /\ call'[t].sleeps = 0
             /\ UNCHANGED <<pool, lock, nextId, transportUp, closed, broken>> )]_vars

\* C10 happens: a dry run has returned while the pool held a session.
C10_Witness ==
    \E t \in Callers :
        /\ call[t].op = "run"
        /\ call[t].dry_run
        /\ call[t].pc = "idle"
        /\ call[t].outcome = "returned"
        /\ call[t].result.stdout = DryRunStdout
        /\ pool # {}

\* C11: when the decorated function fails k times with caught errors and then
\* returns, on attempt k + 1 <= max_attempts, the wrapper returns that value, having
\* called the function k + 1 times and slept k times; the delay before retry i,
\* without jitter, is min(base_delay * exponential_base^(i-1), max_delay), so the
\* delays never decrease and never exceed max_delay.
C11_RetryThenSuccess ==
    (rw.pc = "done" /\ rw.final.kind = "value")
    => LET k == rw.final.of - 1 IN
       /\ k >= 0
       /\ k < rw.max_attempts
       /\ rw.attempt = k + 1
       /\ rw.calls = k + 1
       /\ Len(rw.naps) = k
       /\ \A i \in 1 .. k :
            LET grown == rw.base_delay * Pow(rw.exponential_base, i - 1) IN
            /\ rw.naps[i].delay = IF grown <= rw.max_delay THEN grown ELSE rw.max_delay
            /\ rw.naps[i].delay <= rw.max_delay
            /\ rw.naps[i].slept >= 4 * rw.naps[i].delay
            /\ i < k => rw.naps[i].delay <= rw.naps[i + 1].delay

\* C11 happens: the function failed twice and returned on the third attempt; the
\* second delay was cut down to max_delay.
C11_Witness ==
    /\ rw.pc = "done"
    /\ rw.final.kind = "value"
    /\ rw.final.of = 3
    /\ rw.calls = 3
    /\ Len(rw.naps) = 2
    /\ rw.naps[1].delay < rw.naps[2].delay
    /\ rw.naps[2].delay = rw.max_delay
    /\ rw.base_delay * rw.exponential_base > rw.max_delay

\* C12: the wrapper calls the function at most max_attempts times; when attempt
\* max_attempts fails with a caught error, every attempt has failed: the wrapper has
\* slept max_attempts - 1 times, none of them after the last attempt, and it ends
\* raising the error of that last attempt itself.
C12_BudgetExhausted ==
    /\ rw.pc # "none" =>
          /\ rw.calls <= rw.max_attempts
          /\ rw.pc # "done" => Len(rw.naps) = rw.calls - (IF rw.pc = "loop" THEN 0 ELSE 1)
    /\ ( /\ rw.pc = "done"
         /\ rw.final.kind = "error"
         /\ rw.calls = rw.max_attempts
         /\ rw.max_attempts > 0
         /\ Catches(rw.exceptions, rw.final.cls) )
       => ( /\ Len(rw.naps) = rw.max_attempts - 1
            /\ rw.final.of = rw.max_attempts
            /\ rw.final = rw.last_exception
            /\ rw.final.cls \in OpErrors )

\* C12 happens: three attempts out of three failed, and the third error was raised.
C12_Witness ==
    /\ rw.pc = "done"
    /\ rw.max_attempts = 3
    /\ rw.calls = 3
    /\ Len(rw.naps) = 2
    /\ rw.final.kind = "error"
    /\ rw.final.of = 3
    /\ rw.final.cls = "SSHTimeoutError"
    /\ rw.seen # <<>>
    /\ rw.seen[1][1].cls = "SSHConnectionError"

\* C13: an error of the function that is an instance of no class of exceptions= is
\* raised by the wrapper when it first occurs, on whatever attempt: the call ends
\* with that error, the raising invocation is the last one, and no sleep and no
\* on_retry call were made for it.
C13_NotAllowedPropagates ==
    /\ ( /\ rw.pc = "done"
         /\ rw.final.kind = "error"
         /\ rw.final.cls \in OpErrors
         /\ \A base \in rw.exceptions : ~IsSubclass(rw.final.cls, base) )
       => ( /\ rw.final.of = rw.attempt
            /\ rw.calls = rw.attempt
            /\ Len(rw.naps) = rw.attempt - 1
            /\ Len(rw.seen) = IF rw.on_retry = "none" THEN 0 ELSE rw.attempt - 1
            /\ \A i \in 1 .. Len(rw.seen) :
                  /\ rw.seen[i][2] < rw.attempt
                  /\ \E base \in rw.exceptions : IsSubclass(rw.seen[i][1].cls, base) )
    /\ rw.pc \in {"observe", "sleep"} =>
          \E base \in rw.exceptions : IsSubclass(rw.last_exception.cls, base)

\* C13 happens: the first attempt failed with a caught error, the second with an
\* error that is not caught, which was raised at once.
C13_Witness ==
    /\ rw.pc = "done"
    /\ rw.exceptions = {"SSHConnectionError"}
    /\ rw.final.kind = "error"
    /\ rw.final.cls = "GrovectlError"
    /\ rw.final.of = 2
    /\ rw.calls = 2
    /\ rw.max_attempts = 3
    /\ Len(rw.naps) = 1

\* C14: the call of on_retry comes once before each sleep, with the error and the
\* number of the attempt that failed, and changes nothing else: after it the wrapper
\* goes on to the sleep it was about to make, with the same attempt number, delay
\* and error, whatever on_retry does.
C14_ObserverInert ==
    [][rw.pc = "observe"
       => ( /\ rw'.pc = "sleep"
            /\ rw'.seen = Append(rw.seen, <<rw.last_exception, rw.attempt>>)
            /\ Len(rw'.seen) = Len(rw.naps) + 1
            /\ rw' = [rw EXCEPT !.pc = "sleep", !.seen = rw'.seen] )]_vars

\* C15: when get_client finds a pool entry for the host and does not reuse it (the
\* session is inactive or too old, or force_new is set), it closes the client of
\* that entry and removes the entry before it goes on to connect; and a forced
\* get_client does not return the client that was pooled.
C15_OldEntryDiscarded ==
    [][\A t \in Callers :
        /\ ( /\ call[t].pc = "gc_lock"
             /\ call'[t].pc = "gc_create"
             /\ \E e \in pool : e.name = call[t].host )
           => ( /\ \A e \in pool' : e.name # call[t].host
                /\ \A e \in pool : e.name = call[t].host => e.client \in closed' )
        /\ ( /\ call[t].pc = "gc_create"
             /\ call[t].force_new
             /\ call'[t].pc = "idle"
             /\ call'[t].outcome = "returned" )
           => call'[t].client \notin PooledClients]_vars

\* C16: close(host_name) returns with no entry for that host in the pool and the
\* other entries as they were, close_all() returns with the pool empty; the client
\* of every entry removed has had close() called, and the entry is removed even when
\* that close fails; with nothing pooled to remove (never pooled, or closed before)
\* both return without error and leave the pool and the clients as they were.
C16_CloseTotal ==
    [][\A t \in Callers :
        /\ Close(t) =>
              LET h == call'[t].host IN
              /\ call'[t].pc = "idle"
              /\ call'[t].outcome = "returned"
              /\ call'[t].err = "none"
              /\ \A e \in pool' : e.name # h
              /\ pool' = {e \in pool : e.name # h}
              /\ \A e \in pool : e.name = h => e.client \in closed'
              /\ (\A e \in pool : e.name # h) =>
                    /\ pool' = pool
                    /\ closed' = closed
                    /\ transportUp' = transportUp
        /\ CloseAll(t) =>
              /\ call'[t].pc = "idle"
              /\ call'[t].outcome = "returned"
              /\ call'[t].err = "none"
              /\ pool' = {}
              /\ \A e \in pool : e.client \in closed'
              /\ pool = {} =>
                    /\ closed' = closed
                    /\ transportUp' = transportUp]_vars

\* C16 happens: close(h) has removed the entry of a session whose close failed (the
\* transport is still up), and the pool is empty.
C16_Witness ==
    \E t \in Callers :
        /\ call[t].op = "close"
        /\ call[t].outcome = "returned"
        /\ pool = {}
        /\ 1 \in closed
        /\ 1 \in transportUp
        /\ nextId = 2

\* C17: every exception of client.connect is handled by exactly one except clause
\* and raised as the error kind of its cause: an authentication exception as the
\* authentication error, a timeout as the connection timeout, any other SSH or
\* socket exception as the other connection error, three different classes; the
\* clause closes the client, and the failing get_client leaves the pool, the
\* sessions and the session counter as they were.
C17_CreationFailureClassified ==
    [][\A t \in Callers :
        ( /\ call[t].pc = "gc_create"
          /\ call'[t].pc # call[t].pc
          /\ call'[t].err # "none" )
        => ( /\ EachCauseClassified
             /\ call'[t].err \in {"auth", "conn_timeout", "conn_other"}
             /\ pool' = pool
             /\ nextId' = nextId
             /\ transportUp' = transportUp
             /\ call'[t].client = NoClient )]_vars

\* C17 happens: a get_client call has raised the connection timeout error, with
\* nothing pooled and no session created.
C17_Witness ==
    \E t \in Callers :
        /\ call[t].op = "acquire"
        /\ call[t].pc = "idle"
        /\ call[t].outcome = "raised"
        /\ call[t].err = "conn_timeout"
        /\ ErrClass(call[t].err) = "SSHTimeoutError"
        /\ pool = {}
        /\ nextId = 1

\* C18: a thread whose command is executing does not hold the pool lock, and no
\* other thread that is about to enter get_client, close or close_all finds the lock
\* taken for that reason: it can take it.
C18_NoLockWhileExecuting ==
    \A t \in Callers :
        call[t].pc = "exec" =>
            /\ lock # t
            /\ \A u \in Callers \ {t} :
                  call[u].pc \in {"idle", "gc_lock"} => lock \in {NoThread, u}

\* C18 happens: while the command of one thread was executing on a session, another
\* thread's call took the lock, closed that session and returned.
C18_Witness ==
    \E t \in Callers, u \in Callers :
        /\ t # u
        /\ call[t].pc = "exec"
        /\ call[t].client \in closed
        /\ call[u].op \in {"close", "close_all"}
        /\ call[u].outcome = "returned"
        /\ lock = NoThread

\* C19: a get_client for one host never waits for the session creation that another
\* thread has in progress for a different host: it can take the lock.
C19_OtherHostNotBlocked ==
    \A t \in Callers, u \in Callers :
        ( /\ t # u
          /\ call[t].pc = "gc_lock"
          /\ call[u].pc = "gc_create"
          /\ call[t].host # call[u].host )
        => lock \in {NoThread, t}

\* C20: batch_start and batch_stop return one entry for each VM that list_vms
\* returned, in the same order, each with the name of its VM: as many entries as
\* VMs, whichever of them were in the target state already, were operated on with
\* success, or failed.
C20_BatchOnePerVM ==
    /\ bt.pc = "loop" => Len(bt.results) = bt.i - 1
    /\ bt.pc \in {"loop", "done"} =>
          \A k \in 1 .. Len(bt.results) :
              /\ k <= Len(bt.vms)
              /\ bt.results[k][1] = bt.vms[k].name
    /\ bt.pc = "done" => Len(bt.results) = Len(bt.vms)

\* C20 happens: a batch over three VMs has returned: one was in the target state,
\* one was operated on with success, one failed.
C20_Witness ==
    /\ bt.pc = "done"
    /\ Len(bt.vms) = 3
    /\ Len(bt.results) = 3
    /\ bt.results[1][3] = AlreadyMessage(bt.op)
    /\ ~bt.results[2][2]
    /\ bt.results[3][3] = DoneMessage(bt.op)
    /\ bt.vms[2].name = bt.vms[3].name

\* C21: in batch_start and batch_stop a VM whose operation raises (the not-found
\* error, the operation error, a connection error, any other exception) does not
\* end the batch: the loop goes on to the next VM, the entries made so far stay as
\* they are, and the VM gets one entry with its name, success false and the text of
\* its own error; a VM whose operation returns gets success true.
C21_FailureDoesNotAbort ==
    [][( /\ bt.pc = "loop"
         /\ bt.i <= Len(bt.vms)
         /\ bt.vms[bt.i].state # TargetState(bt.op)
         /\ bt' # bt )
       => ( /\ bt'.pc = "loop"
            /\ bt'.i = bt.i + 1
            /\ bt'.vms = bt.vms
            /\ Len(bt'.results) = Len(bt.results) + 1
            /\ SubSeq(bt'.results, 1, Len(bt.results)) = bt.results
            /\ bt'.results[bt.i][1] = bt.vms[bt.i].name
            /\ bt'.results[bt.i][2] <=> bt'.results[bt.i][3] = DoneMessage(bt.op)
            /\ ~bt'.results[bt.i][2] =>
                  bt'.results[bt.i][3] \in
                      {"VMNotFoundError", "VMStartError", "VMStopError", "OSError",
                       "SSHConnectionError", "SSHTimeoutError",
                       "SSHAuthenticationError"} )]_vars

\* C21 happens: a batch has returned in which the first VM failed with a connection
\* error, the second with the not-found error, and the third was operated on with
\* success.
C21_Witness ==
    /\ bt.pc = "done"
    /\ Len(bt.results) = 3
    /\ bt.results[1] = <<bt.vms[1].name, FALSE, "SSHConnectionError">>
    /\ bt.results[2] = <<bt.vms[2].name, FALSE, "VMNotFoundError">>
    /\ bt.results[3] = <<bt.vms[3].name, TRUE, DoneMessage(bt.op)>>

\* C22: a VM listed in the target state gets a success entry and no command; for
\* every other VM the start or stop command is issued to the remote side once:
\* never more than once, and once when its entry is a success.
C22_CommandOnceEach ==
    [][( /\ bt.pc = "loop"
         /\ bt.i <= Len(bt.vms)
         /\ bt' # bt )
       => IF \/ bt.op = "start" /\ bt.vms[bt.i].state = "running"
             \/ bt.op = "stop" /\ bt.vms[bt.i].state = "stopped"
          THEN /\ bt'.last = NoCommand
               /\ bt'.results[bt.i][2]
          ELSE /\ bt'.last.host = bt.vms[bt.i].host
               /\ bt'.last.name = bt.vms[bt.i].name
               /\ bt'.last.issued <= 1
               /\ bt'.results[bt.i][2] => bt'.last.issued = 1]_vars

\* C23: list_vms over the whole registry never raises.  When the listing of a host
\* has ended, a listing that raised, that exited non-zero, whose output is empty or
\* is not a JSON list of objects, or that holds an item VM(...) rejects adds nothing to
\* the VMs gathered so far; any other listing adds one VM per item, in the order of
\* the output, each with the name of that host; the VMs of the hosts before stay as
\* they were.  After the last host the call returns the VMs gathered.
C23_HostFailureIsLocal ==
    [][( /\ vo.pc = "ran"
         /\ vo.op = "list"
         /\ vo.host = "none"
         /\ vo' # vo ) =>
        LET r == vo.res
            lost == \/ r.kind = "raised"
                    \/ r.exit_code # 0
                    \/ r.stdout.kind # "json"
                    \/ \E k \in DOMAIN r.stdout.items : r.stdout.items[k].Name = ""
            n == Len(vo.acc)
        IN  /\ vo'.out.kind # "raised"
            /\ SubSeq(vo'.acc, 1, n) = vo.acc
            /\ lost => vo'.acc = vo.acc
            /\ ~lost =>
                /\ Len(vo'.acc) = n + Len(r.stdout.items)
                /\ \A k \in DOMAIN r.stdout.items :
                    /\ vo'.acc[n + k].host = vo.cur.host
                    /\ vo'.acc[n + k].name =
                           IF r.stdout.items[k].Name = "missing" THEN "unknown"
                           ELSE r.stdout.items[k].Name
            /\ IF Len(vo.log) < Len(HostOrder)
               THEN vo'.pc = "run" /\ vo'.cur.host = HostOrder[Len(vo.log) + 1]
               ELSE vo'.pc = "done" /\ vo'.out.ret = "list" /\ vo'.out.vms = vo'.acc]_vars

\* list_vms over the registry has returned the VM of the first host although run
\* raised for the second host after its attempts.
C23_Witness ==
    /\ vo.pc = "done"
    /\ vo.op = "list"
    /\ vo.host = "none"
    /\ Len(vo.log) = 2
    /\ vo.log[1].exited
    /\ ~vo.log[2].exited
    /\ vo.log[2].attempt = MaxAttempts
    /\ vo.out.kind = "returned"
    /\ Len(vo.out.vms) = 1
    /\ vo.out.vms[1].host = HostOrder[1]

\* C24: when the command of start_vm, stop_vm or delete_vm has exited non-zero, the
\* call raises: VMNotFoundError with the VM name and the host name when stderr holds
\* "not found" in some letter case, and otherwise the error of the operation
\* (VMStartError, VMStopError, VMOperationError for delete) with the VM name, the
\* operation, the host name and stderr as it came.  It never returns a value.
C24_NonZeroExitRaises ==
    [][( /\ vo.pc = "ran"
         /\ vo.step = "main"
         /\ vo.op \in {"start", "stop", "delete"}
         /\ vo.res.kind = "result"
         /\ vo.res.exit_code # 0
         /\ vo' # vo ) =>
        /\ vo'.pc = "done"
        /\ vo'.out.kind = "raised"
        /\ vo'.out.err.vm_name = vo.name
        /\ vo'.out.err.host = vo.host
        /\ IF vo.res.stderr \in {VmNotFoundText, UpperNotFoundText, TitleNotFoundText}
           THEN vo'.out.err.cls = "VMNotFoundError"
           ELSE /\ vo'.out.err.cls = CASE vo.op = "start" -> "VMStartError"
                                       [] vo.op = "stop" -> "VMStopError"
                                       [] vo.op = "delete" -> "VMOperationError"
                /\ vo'.out.err.operation = vo.op
                /\ vo'.out.err.message = vo.res.stderr]_vars

\* stop_vm("vm-1", "A", force=True) has raised VMNotFoundError for vm-1 on A after
\* exit code 1 with "Error: NOT FOUND" on stderr.
C24_Witness ==
    /\ vo.pc = "done"
    /\ vo.op = "stop"
    /\ vo.force
    /\ vo.name = "vm-1"
    /\ vo.host = "A"
    /\ vo.res.kind = "result"
    /\ vo.res.exit_code = 1
    /\ vo.res.stderr = UpperNotFoundText
    /\ vo.out.kind = "raised"
    /\ vo.out.err.cls = "VMNotFoundError"
    /\ vo.out.err.vm_name = "vm-1"
    /\ vo.out.err.host = "A"

\* C25: when the command of start_vm, stop_vm, delete_vm or clone_vm has exited with
\* code 0, the call goes on as after a success whatever stderr holds: stop_vm and
\* clone_vm return the VM in state stopped, delete_vm returns True, start_vm goes to
\* its re-query; no error is raised in that step.
C25_ExitCodeDecides ==
    [][( /\ vo.pc = "ran"
         /\ vo.step = "main"
         /\ vo.op \in {"start", "stop", "delete", "clone"}
         /\ vo.res.kind = "result"
         /\ vo.res.exit_code = 0
         /\ vo' # vo ) =>
        /\ vo'.out.kind # "raised"
        /\ vo.op \in {"stop", "clone"} =>
               /\ vo'.pc = "done"
               /\ vo'.out.ret = "vm"
               /\ vo'.out.vm.name = vo.name
               /\ vo'.out.vm.host = vo.host
               /\ vo'.out.vm.state = "stopped"
        /\ vo.op = "delete" => vo'.pc = "done" /\ vo'.out.ret = "true"
        /\ vo.op = "start" =>
               vo'.pc = "run" /\ vo'.cur.cmd = <<"tart", "list", "--format", "json">>]_vars

\* delete_vm has returned True after exit code 0 with "VM not found" on stderr.
C25_Witness ==
    /\ vo.pc = "done"
    /\ vo.op = "delete"
    /\ vo.res.kind = "result"
    /\ vo.res.exit_code = 0
    /\ vo.res.stderr = VmNotFoundText
    /\ vo.out.kind = "returned"
    /\ vo.out.ret = "true"

\* C26: when the re-query of start_vm has ended (the start command had exited 0),
\* start_vm returns and does not raise.  If the re-query raised, exited non-zero,
\* gave no usable listing or listed no VM with the name, the value is a VM with the
\* requested name and host in state starting; otherwise it is the first listed VM
\* with the name, with the state the remote side reported for it.
C26_StartSurvivesRequery ==
    [][( /\ vo.pc = "ran"
         /\ vo.op = "start"
         /\ vo.step = "requery"
         /\ vo' # vo ) =>
        LET r == vo.res
            usable == /\ r.kind = "result"
                      /\ r.exit_code = 0
                      /\ r.stdout.kind = "json"
                      /\ \A k \in DOMAIN r.stdout.items : r.stdout.items[k].Name # ""
            hits == IF usable
                    THEN {k \in DOMAIN r.stdout.items : r.stdout.items[k].Name = vo.name}
                    ELSE {}
        IN  /\ vo'.pc = "done"
            /\ vo'.out.kind = "returned"
            /\ vo'.out.ret = "vm"
            /\ vo'.out.vm.name = vo.name
            /\ vo'.out.vm.host = vo.host
            /\ hits = {} => vo'.out.vm.state = "starting"
            /\ hits # {} =>
                  LET first == CHOOSE k \in hits : \A j \in hits : k <= j
                  IN  vo'.out.vm.state =
                          CASE r.stdout.items[first].State.text =
                                   <<"R", "u", "n", "n", "i", "n", "g">> -> "running"
                            [] r.stdout.items[first].State.text =
                                   <<"p", "a", "u", "s", "e", "d">> -> "unknown"]_vars

\* start_vm has returned the VM in state starting although its re-query raised
\* after the attempts of run.
C26_Witness ==
    /\ vo.pc = "done"
    /\ vo.op = "start"
    /\ Len(vo.log) = 2
    /\ vo.log[1].exited
    /\ ~vo.log[2].exited
    /\ vo.res.kind = "raised"
    /\ vo.out.kind = "returned"
    /\ vo.out.vm = [name |-> vo.name, host |-> vo.host, state |-> "starting",
                    cpu |-> Unset, memory |-> Unset, disk |-> Unset,
                    ip_address |-> "none", source_image |-> "none"]

\* C27: when the command of start_vm, stop_vm, delete_vm or clone_vm has
\* exited non-zero, run issued it exactly once and slept not at all.
C27_IssuedOnceNoSleep ==
    ( /\ vo.pc = "ran"
      /\ vo.step = "main"
      /\ vo.op \in {"start", "stop", "delete", "clone"}
      /\ vo.res.kind = "result"
      /\ vo.res.exit_code # 0 ) =>
        vo.cur.issued = 1 /\ vo.cur.sleeps = 0

\* C28: a stop_vm call on a host of the registry that has ended gave run one command
\* and no other, "tart stop <name>" with "--force" exactly when force was asked, and
\* never a listing; the remote side was sent that command once when it ran to its
\* exit; after exit code 0 the call returned a VM with the requested name and host
\* in state stopped.
C28_StopIssuesOneCommand ==
    ( /\ vo.pc = "done"
      /\ vo.op = "stop"
      /\ vo.host \in Hosts ) =>
        /\ Len(vo.log) = 1
        /\ vo.log[1].host = vo.host
        /\ vo.log[1].cmd = IF vo.force THEN <<"tart", "stop", vo.name, "--force">>
                           ELSE <<"tart", "stop", vo.name>>
        /\ vo.log[1].exited => vo.log[1].issued = 1
        /\ (vo.res.kind = "result" /\ vo.res.exit_code = 0) =>
               /\ vo.out.kind = "returned"
               /\ vo.out.ret = "vm"
               /\ vo.out.vm.name = vo.name
               /\ vo.out.vm.host = vo.host
               /\ vo.out.vm.state = "stopped"

\* C29: a create_vm call whose clone command exited 0 and whose configuration
\* command has been given to run ends by returning a VM in state stopped with the new
\* name, with cpu, memory and disk the values of the caller or the defaults of the
\* configuration for those not given, and with the source image, whatever became of
\* the configuration command.
C29_CreateSurvivesConfigFailure ==
    ( /\ vo.pc = "done"
      /\ vo.op = "create"
      /\ Len(vo.log) = 2 ) =>
        /\ vo.out.kind = "returned"
        /\ vo.out.ret = "vm"
        /\ vo.out.vm.name = vo.name
        /\ vo.out.vm.host = vo.host
        /\ vo.out.vm.state = "stopped"
        /\ vo.out.vm.cpu = IF vo.cpu.set THEN vo.cpu ELSE Some(4)
        /\ vo.out.vm.memory = IF vo.memory.set THEN vo.memory ELSE Some(8192)
        /\ vo.out.vm.disk = IF vo.disk.set THEN vo.disk ELSE Some(50)
        /\ vo.out.vm.source_image = "img"

\* C30: a call of list_vms with a host, get_vm, start_vm, stop_vm, delete_vm, clone_vm
\* or create_vm that names a host the registry does not hold never gives a command
\* to run and never makes an attempt (so no session is asked of the pool); it ends
\* in its first step by raising HostNotFoundError for that host name.
C30_UnknownHostRaisesFirst ==
    ( vo.pc # "none" /\ vo.host \notin Hosts \cup {"none"} ) =>
        /\ vo.pc \in {"call", "done"}
        /\ vo.log = <<>>
        /\ vo.cur.cmd = <<>>
        /\ vo.cur.attempt = 0
        /\ vo.cur.issued = 0
        /\ pool = {}
        /\ vo.pc = "done" =>
               /\ vo.out.kind = "raised"
               /\ vo.out.err.cls = "HostNotFoundError"
               /\ vo.out.err.host = vo.host

\* create_vm for a host that is not in the registry has raised HostNotFoundError
\* without a command.
C30_Witness ==
    /\ vo.pc = "done"
    /\ vo.op = "create"
    /\ vo.host = "Z"
    /\ vo.out.kind = "raised"
    /\ vo.out.err.cls = "HostNotFoundError"
    /\ vo.out.err.host = "Z"
    /\ vo.log = <<>>

\* C31: list_vms with a pattern returns the VMs of the combined result whose name
\* matches the pattern, all of them and no other, whatever their states, in the
\* order they had; which names match is fixed here name by name for each pattern:
\* "test-*" and "test-?" take test-1 and test-2, "*" takes every name, "*-1" takes
\* test-1 and builder-1, "builder-1" takes builder-1, "t*1" takes test-1 and "????"
\* takes test.
C31_PatternFilterExact ==
    ( vo.pc = "done" /\ vo.pattern.given ) =>
        LET names == [k \in 1 .. 7 |->
                         CASE k \in {1, 4} -> {GlobNames[1], GlobNames[2]}
                           [] k = 2 -> {GlobNames[1], GlobNames[2], GlobNames[3], GlobNames[4]}
                           [] k = 3 -> {GlobNames[1], GlobNames[3]}
                           [] k = 5 -> {GlobNames[3]}
                           [] k = 6 -> {GlobNames[1]}
                           [] k = 7 -> {GlobNames[4]}]
            p == CHOOSE k \in 1 .. 7 : GlobPatterns[k] = vo.pattern.text
            kept == {i \in DOMAIN vo.all_vms : vo.all_vms[i].name \in names[p]}
        IN  /\ Len(vo.out) = Cardinality(kept)
            /\ \E f \in [DOMAIN vo.out -> kept] :
                   /\ \A i \in DOMAIN vo.out : vo.out[i] = vo.all_vms[f[i]]
                   /\ \A i \in DOMAIN vo.out, j \in DOMAIN vo.out : i < j => f[i] < f[j]

\* list_vms with pattern "test-*" over test-1 (stopped), builder-1 and test-2
\* (running) has returned test-1 and test-2, in that order.
C31_Witness ==
    /\ vo.pc = "done"
    /\ vo.pattern.given
    /\ vo.pattern.text = GlobPatterns[1]
    /\ Len(vo.all_vms) = 3
    /\ vo.all_vms[1].name = GlobNames[1] /\ vo.all_vms[1].state = "stopped"
    /\ vo.all_vms[2].name = GlobNames[3]
    /\ vo.all_vms[3].name = GlobNames[2] /\ vo.all_vms[3].state = "running"
    /\ vo.out = <<vo.all_vms[1], vo.all_vms[3]>>

\* C32: the parse of a JSON array gives one VM per object, in the order of the
\* array, each with the name of the queried host, the Name of the object ("unknown"
\* when it has none), the state the State text stands for in lower case (running for
\* "running" and "Running", stopped for "STOPPED", unknown for "paused", for the
\* empty text and for a missing State), the CPU, Memory, Disk and Source of the
\* object where it has them and none where it has not, and no IP address.
C32_ParseItem ==
    ( vo.pc = "done" /\ vo.output.kind = "json" ) =>
        /\ ~vo.raised
        /\ Len(vo.vms) = Len(vo.output.items)
        /\ \A k \in DOMAIN vo.output.items :
            LET item == vo.output.items[k]
                vm == vo.vms[k]
            IN  /\ vm.host = vo.host
                /\ vm.name = IF item.Name = "missing" THEN "unknown" ELSE item.Name
                /\ vm.state =
                       IF ~item.State.given THEN "unknown"
                       ELSE CASE item.State.text \in {ParseStates[1], ParseStates[2]} -> "running"
                              [] item.State.text = ParseStates[3] -> "stopped"
                              [] item.State.text \in {ParseStates[4], ParseStates[5]} -> "unknown"
                /\ vm.cpu = item.CPU
                /\ vm.memory = item.Memory
                /\ vm.disk = item.Disk
                /\ vm.source_image = item.Source
                /\ vm.ip_address = "none"

\* The parse of [{"Name": "vm-1", "State": "STOPPED", "CPU": 4, "Memory": 8192}] for
\* host A has given one VM: vm-1 on A, stopped, cpu 4, memory 8192, no disk, no
\* source, no IP address.
C32_Witness ==
    /\ vo.pc = "done"
    /\ vo.host = "A"
    /\ Len(vo.output.items) = 1
    /\ vo.output.items[1].Name = "vm-1"
    /\ vo.output.items[1].State = [given |-> TRUE, text |-> ParseStates[3]]
    /\ vo.output.items[1].CPU = Some(4)
    /\ vo.output.items[1].Disk = Unset
    /\ vo.vms = << [name |-> "vm-1", host |-> "A", state |-> "stopped", cpu |-> Some(4),
                    memory |-> Some(8192), disk |-> Unset, ip_address |-> "none",
                    source_image |-> "none"] >>

C34_NoSessionLeaked ==
    \A client \in 1 .. nextId - 1 : client \in PooledClients \/ client \in closed

\* C35: the eviction run performs after a protocol error on a client leaves in the
\* pool every entry whose client is another one, the entry another caller has
\* meanwhile put in for the same host included.
C35_EvictsOwnSessionOnly ==
    [][\A t \in Callers :
        ExecProtocolError(t) =>
            \A e \in pool : e.client # call[t].client => e \in pool']_vars

\* C36: while a call of run holds the client get_client handed to it and its
\* command has not ended, close() has not been called on that client.
C36_HandedOutNotClosed ==
    \A t \in Callers :
        (call[t].op = "run" /\ call[t].pc = "exec") => call[t].client \notin closed

\* C37: when _create_client fails inside get_client, the error of its cause leaves
\* get_client (a direct call ends raising it), the pool is as it was before the
\* attempt, with no entry for the host unless the call was forced, so that an entry
\* get_client discarded before the attempt stays removed, and no new client exists.
C37_CreateFailureLeavesNoEntry ==
    [][\A t \in Callers :
        GcCreateFail(t) =>
            /\ call'[t].err \in {"auth", "conn_timeout", "conn_other"}
            /\ call[t].op = "acquire" =>
                  call'[t].pc = "idle" /\ call'[t].outcome = "raised"
            /\ pool' = pool
            /\ nextId' = nextId
            /\ transportUp' = transportUp
            /\ ~call[t].force_new => \A e \in pool' : e.name # call[t].host
            /\ call[t].discarded => \A e \in pool' : e.name # call[t].host]_vars

\* C37 happens: a get_client call that closed and removed the entry of client 1 has
\* ended with the error of a failed connect, and the pool is empty.
C37_Witness ==
    \E t \in Callers :
        /\ call[t].op = "acquire"
        /\ call[t].pc = "idle"
        /\ call[t].outcome = "raised"
        /\ call[t].discarded
        /\ closed = {1}
        /\ pool = {}
        /\ nextId = 2

\* C38: a step of get_client(h), run(h, ...) or close(h), ending well or not (a step
\* that changes the record of such a call, begun or in progress), leaves
\* the pool entry of every other host, client and created_at, as it was, adds none
\* for another host, and calls close() on no client but the one pooled for h; and
\* a get_client that returns the pooled client leaves the whole pool as it was,
\* the created_at of the entry it reuses included.
C38_HostLocal ==
    [][\A t \in Callers :
        /\ ( call'[t] # call[t] /\ call'[t].op \in {"acquire", "run", "close"} )
           => LET h == IF call[t].pc = "idle" THEN call'[t].host ELSE call[t].host IN
              /\ {e \in pool' : e.name # h} = {e \in pool : e.name # h}
              /\ closed' \ closed \subseteq {e.client : e \in {d \in pool : d.name = h}}
        /\ ( call[t].pc = "gc_lock" /\ call'[t].pc \in {"exec", "idle"} ) => pool' = pool]_vars

\* C38 happens: with client 1 pooled for A at time 0 and the clock at 1, a
\* get_client for B has pooled client 2, and the entry of A is as it was.
C38_Witness ==
    \E t \in Callers :
        /\ call[t].op = "acquire"
        /\ call[t].host = "B"
        /\ call[t].outcome = "returned"
        /\ call[t].client = 2
        /\ now = 1
        /\ pool = {[name |-> "A", client |-> 1, created_at |-> 0],
                   [name |-> "B", client |-> 2, created_at |-> 1]}

\* C39: the first command create_vm gives to run is "tart clone <image> <name>" on
\* the named host; it gives a second one, "tart set <name> ...", on the same host,
\* only when the clone command has returned exit code 0, and nothing was given to run
\* in between; a create_vm that ends after the clone command has given run that
\* command alone and raises: VMOperationError for the new name, operation "clone",
\* when the clone command exited non-zero.
C39_CloneThenConfigure ==
    [][vo.op = "create" =>
        /\ ( vo.pc = "call" /\ vo'.pc = "run" ) =>
              /\ vo'.cur.cmd = <<"tart", "clone", "img", vo.name>>
              /\ vo'.cur.host = vo.host
              /\ vo'.log = <<>>
        /\ ( vo'.pc = "run" /\ vo.pc = "ran" ) =>
              /\ vo.res.kind = "result"
              /\ vo.res.exit_code = 0
              /\ Len(vo.log) = 1
              /\ vo.log[1].cmd = <<"tart", "clone", "img", vo.name>>
              /\ SubSeq(vo'.cur.cmd, 1, 3) = <<"tart", "set", vo.name>>
              /\ vo'.cur.host = vo.host
        /\ ( vo'.pc = "done" /\ vo.pc = "ran" /\ vo.step = "main" ) =>
              /\ Len(vo'.log) = 1
              /\ vo'.log[1].cmd = <<"tart", "clone", "img", vo.name>>
              /\ vo'.out.kind = "raised"
              /\ vo.res.kind = "result" =>
                    /\ vo.res.exit_code # 0
                    /\ vo'.out.err.cls = "VMOperationError"
                    /\ vo'.out.err.vm_name = vo.name
                    /\ vo'.out.err.operation = "clone"
                    /\ vo'.out.err.host = vo.host]_vars

\* C39 happens: create_vm("vm-1", "A", "img") has raised VMOperationError for vm-1,
\* operation "clone", after the clone command exited 1; run was given that one
\* command.
C39_Witness ==
    /\ vo.pc = "done"
    /\ vo.op = "create"
    /\ vo.name = "vm-1"
    /\ vo.host = "A"
    /\ ~vo.dry_run
    /\ vo.res.kind = "result"
    /\ vo.res.exit_code = 1
    /\ Len(vo.log) = 1
    /\ vo.log[1].cmd = <<"tart", "clone", "img", "vm-1">>
    /\ vo.out.kind = "raised"
    /\ vo.out.err.cls = "VMOperationError"
    /\ vo.out.err.vm_name = "vm-1"
    /\ vo.out.err.operation = "clone"

\* C40: in batch_start and batch_stop the command for a VM that is not in the target
\* state goes to the host the listing gave for that VM and names that VM, and every
\* VM of the listing gets an entry of its own, two VMs of one name on two hosts
\* included.
C40_CommandToOwnHost ==
    [][( /\ bt.pc = "loop"
         /\ bt.i <= Len(bt.vms)
         /\ bt' # bt )
       => /\ bt.vms[bt.i].state # TargetState(bt.op) =>
                /\ bt'.last.host = bt.vms[bt.i].host
                /\ bt'.last.name = bt.vms[bt.i].name
          /\ bt'.i = bt.i + 1
          /\ Len(bt'.results) = bt.i
          /\ bt'.results[bt.i][1] = bt.vms[bt.i].name
          /\ \A k \in 1 .. bt.i - 1 : bt'.results[k] = bt.results[k]]_vars

\* C40 happens: a batch over a VM vm-1 on A and a VM vm-1 on B, neither in the target
\* state, has returned two entries, both for vm-1, and its last command went to B.
C40_Witness ==
    /\ bt.pc = "done"
    /\ Len(bt.vms) = 2
    /\ bt.vms[1].name = "vm-1" /\ bt.vms[1].host = "A"
    /\ bt.vms[2].name = "vm-1" /\ bt.vms[2].host = "B"
    /\ Len(bt.results) = 2
    /\ bt.results[1][1] = "vm-1" /\ bt.results[1][2]
    /\ bt.results[2][1] = "vm-1" /\ bt.results[2][2]
    /\ bt.last.host = "B"
    /\ bt.last.name = "vm-1"
    /\ bt.last.issued = 1

====
